---- MODULE Spec2Model ----
(***************************************************************************)
(* A model of the OpenELP EchoLink proxy: the admission path (listener,    *)
(* client workers, slot pool), the worker primitive, the per-slot framed   *)
(* exchange and the proxy life cycle.                                      *)
(***************************************************************************)
EXTENDS Integers, Sequences, FiniteSets, TLC

\* ------------------------------------------------------------------------
\* Bounds of the model
\* ------------------------------------------------------------------------
\* number of slots and of client workers (priv->num_clients)
NumClients == 2
\* connections the listener accepts in one run of the model
MaxConns == 3

\* ------------------------------------------------------------------------
\* Program constants
\* ------------------------------------------------------------------------
NULL == 0

WORKER_STOPPED == 0
WORKER_STOPPING == 1
WORKER_STOPPING_AFTER_WORK == 2
WORKER_BUSY == 3
WORKER_SIGNALED == 4
WORKER_IDLE == 5
WORKER_STARTING == 6

REGISTRATION_STATUS_UNKNOWN == 0
REGISTRATION_STATUS_READY == 1
REGISTRATION_STATUS_BUSY == 2
REGISTRATION_STATUS_OFF == 3

\* errno values the model tells apart (returned negated)
EINVAL == 22
EBUSY == 16
EACCES == 13

Slots == 1..NumClients
Workers == 1..NumClients
Conns == 1..MaxConns

\* threads that run proxy_update_registration: the client workers, the main
\* thread (proxy_process, proxy_close) and the signal handler (proxy_shutdown)
MainThread == NumClients + 1
SigThread == NumClients + 2
Threads == 1..(NumClients + 2)

\* callsigns clients present; "" is the zeroed callsign of a fresh slot
Callsigns == {"KM0H", "N0CALL", "BAD"}
\* callsigns matched by conf.calls_denied (the compiled deny pattern)
DeniedCalls == {"BAD"}
\* nonces get_nonce can draw
Nonces == {1, 2}
\* passwords as ASCII codes: the configured one ("pUb") and one a client may
\* wrongly use ("pUc")
Password == <<112, 85, 98>>
Passwords == {<<112, 85, 98>>, <<112, 85, 99>>}
\* conf.calls_denied / conf.calls_allowed as compiled: <<>> is a NULL handle,
\* <<S>> a pattern matching exactly the callsigns in S
re_calls_denied == <<DeniedCalls>>
re_calls_allowed == <<>>

\* ------------------------------------------------------------------------
\* State
\* ------------------------------------------------------------------------
VARIABLES
    \* struct proxy_priv
    usable_clients,         \* priv->usable_clients
    num_clients,            \* priv->num_clients
    idle_workers_head,      \* priv->idle_workers_head (worker id or NULL)
    idle_clients_head,      \* priv->idle_clients_head (slot id or NULL)
    idle_clients_tail_ptr,  \* priv->idle_clients_tail_ptr: 0 = &head, s = &clients[s].next, -1 = NULL
    listen,                 \* priv->conn_listen: "open", "shut", "closed"
    \* struct proxy_worker, per worker
    pw_conn,                \* pw->conn_client
    pw_next,                \* pw->next
    pw_callsign,            \* pw->callsign
    pw_nonce,               \* nonce of the running authorization
    pw_pc,                  \* local pc of proxy_worker_func: the chosen slot
    wstate,                 \* pw->worker: worker_priv.state
    wpc,                    \* position of the worker's thread
    \* struct proxy_conn_handle / proxy_conn_priv, per slot
    pc_conn,                \* priv->conn_client (the binding)
    pc_callsign,            \* priv->callsign (last callsign)
    pc_next,                \* pc->next
    pc_prev_ptr,            \* pc->prev_ptr: 0 = &head, s = &clients[s].next
    \* accepted connections
    conn_state,             \* "none", "open", "shut" (shutdown by the proxy), "freed"
    conn_frees,             \* how often conn_free+free ran on the connection
    conn_auth,              \* what the client of the connection supplied: "none", "ok", "badpw", "denied", "invalid"
    conn_worker,            \* the worker the connection was handed to, or NULL
    conn_sent,              \* what the proxy passed to conn_send on the connection, in order
    \* main thread (proxy_process, proxy_close) and signal handler (proxy_shutdown)
    mainPc, mainConn, mainWorker, mainRet, closeIdx,
    sigPc,
    \* proxy_update_registration per thread: position and locals
    upd_pc, upd_total, upd_used,
    \* struct registration_service_priv
    reg_status, reg_slots_used, reg_slots_total,
    \* one worker (worker.c) seen from its callers
    wk_state,               \* worker_priv.state
    wk_thread,              \* the worker's thread: "none", "top" (at the loop's test), "func", "wait", "done"
    wk_notified,            \* condvar: woken while waiting, the wait has not returned yet
    wk_periodic_wake,       \* wh->periodic_wake
    wk_join,                \* a caller inside worker_join: "idle", "joining"
    wk_calls,               \* calls the callers still make
    wk_owed,                \* the run a successful worker_wake is owed: "none", "owed", "running"
    wk_join2,               \* a second, concurrent caller inside worker_join: "idle", "joining"
    wk_wi,                  \* a caller of worker_wait_idle: "idle", "waiting", "woken", "ret_ok", "ret_err"
    \* one slot in service (proxy_conn.c): the four writers to its client
    sl_mutex,               \* priv->mutex_client_send: its owner, or "free"
    sl_pc,                  \* position of each writer's thread
    sl_conn_tcp,            \* priv->conn_tcp: "closed", "open"
    sl_gen,                 \* how many outbound connections conn_connect has opened
    sl_held,                \* the outbound connection the TCP forwarder's frame was received on
    sl_out,                 \* frames written to the client, in order: <<type, connection>>
    sl_events,              \* frames and datagrams the peers still send
    \* the locks of the proxy and of its slots, and the threads that take them
    lk_prog,                \* per thread: the lock and socket operations of the call it is in
    lk_pc,                  \* per thread: the operation it is at
    lk_held,                \* per thread: the locks it holds, as <<lock, mode>>
    lk_on,                  \* the thread graceful_shutdown has interrupted, 0 if none
    \* the registration worker (registration.c)
    rw_state,               \* the service: "stopped", "running", "stop_join" and "stopping" (inside registration_service_stop, before and in worker_join)
    rw_wstate,              \* the service's worker: worker_priv.state
    rw_thread,              \* the worker's thread: "none", "loop", "func", "wait", "done"
    rw_mid,                 \* registration_service_stop was called while a report of another status was on its way
    rw_off_sent,            \* send_report was called with status Off since registration_service_stop was called
    rw_pc,                  \* registration_func: "idle", "snap" (after the snapshot)
    rw_snap,                \* its locals <<status, slots_used, slots_total>>
    rw_report,               \* what the last send_report was called with, <<>> if none
    td_pc,
    td_size,
    td_left,
    td_buf,
    td_stream,
    td_payload,
    td_rest,
    td_out,
    td_tcp_ret,
    td_short,
    td_conn_tcp,
    td_closes,
    td_ret,
    cl_fd,
    cl_shut,
    cl_readers,
    cl_lock,
    cl_queue,
    cl_sent,
    cl_rpc,
    cl_kind,
    cl_left,
    cl_ret,
    cl_hit,
    cl_cpc,
    pv_pc,
    pv_nonce,
    pv_password,
    pv_other,
    pv_response,
    pv_ok,
    az_pc,
    az_denied,
    az_allowed,
    az_callsign,
    az_eng_denied,
    az_eng_allowed,
    az_ret,
    dg_pc,
    dg_value,
    dg_hex,
    dg_back,
    pool_head,
    pool_next,
    pool_prev_ptr,
    pool_tail_ptr,
    pool_held,
    pool_idle,               \* history: the idle slots in the order they became idle
    fn_client,
    fn_pc,
    fn_conn,
    fn_thr,
    fn_held,
    fn_sent,
    fn_sessions,
    fn_drops,
    rl_updates,
    rl_busy,
    rl_latest,
    fr_pc,
    fr_slot,
    fr_client,
    fr_type,
    fr_size,
    fr_stream,
    fr_ret,
    fr_binds,
    fr_bad,
    hs_pc,
    hs_msg,
    hs_buff,
    hs_idx,
    hs_callsign,
    hs_read,
    hs_cmp,
    hs_ret

proxyVars == <<usable_clients, num_clients, idle_workers_head, idle_clients_head,
               idle_clients_tail_ptr, listen, pw_conn, pw_next, pw_callsign, pw_nonce,
               pw_pc, wstate, wpc, pc_conn, pc_callsign, pc_next, pc_prev_ptr,
               conn_state, conn_frees, conn_auth, conn_worker, conn_sent, mainPc, mainConn,
               mainWorker, mainRet, closeIdx, sigPc>>

regSpecVars == <<upd_pc, upd_total, upd_used, reg_status, reg_slots_used, reg_slots_total>>

workerSpecVars == <<wk_state, wk_thread, wk_notified, wk_periodic_wake, wk_join, wk_calls,
                    wk_owed, wk_wi, wk_join2>>

slotSpecVars == <<sl_mutex, sl_pc, sl_conn_tcp, sl_gen, sl_held, sl_out, sl_events>>

lockSpecVars == <<lk_prog, lk_pc, lk_held, lk_on>>

regWorkerVars == <<rw_state, rw_wstate, rw_thread, rw_mid, rw_off_sent, rw_pc, rw_snap, rw_report>>

tcpDataVars == <<td_pc, td_size, td_left, td_buf, td_stream, td_payload, td_rest, td_out, td_tcp_ret, td_short,
                 td_conn_tcp, td_closes, td_ret>>

closeSpecVars == <<cl_fd, cl_shut, cl_readers, cl_lock, cl_queue, cl_sent, cl_rpc, cl_kind, cl_left, cl_ret, cl_hit, cl_cpc>>

pwSpecVars == <<pv_pc, pv_nonce, pv_password, pv_other, pv_response, pv_ok>>

authSpecVars == <<az_pc, az_denied, az_allowed, az_callsign, az_eng_denied, az_eng_allowed, az_ret>>

digestSpecVars == <<dg_pc, dg_value, dg_hex, dg_back>>

poolSpecVars == <<pool_head, pool_next, pool_prev_ptr, pool_tail_ptr, pool_held, pool_idle>>

finSpecVars == <<fn_client, fn_pc, fn_conn, fn_thr, fn_held, fn_sent, fn_sessions, fn_drops>>

regLatestVars == <<rl_updates, rl_busy, rl_latest>>

frameVars == <<fr_pc, fr_slot, fr_client, fr_type, fr_size, fr_stream, fr_ret, fr_binds, fr_bad>>

handshakeVars == <<hs_pc, hs_msg, hs_buff, hs_idx, hs_callsign, hs_read, hs_cmp, hs_ret>>

vars == <<proxyVars, regSpecVars, workerSpecVars, slotSpecVars, lockSpecVars, regWorkerVars, tcpDataVars, closeSpecVars, pwSpecVars, authSpecVars, digestSpecVars, poolSpecVars, finSpecVars, regLatestVars, frameVars, handshakeVars>>

\* the variables of the workers, of the slots and of the slot pool
workerVars == <<idle_workers_head, pw_conn, pw_next, pw_callsign, pw_nonce, pw_pc, wstate, wpc>>
slotVars == <<idle_clients_head, idle_clients_tail_ptr, pc_conn, pc_callsign, pc_next, pc_prev_ptr>>

\* ------------------------------------------------------------------------
\* Helpers: the two intrusive lists, read by walking their pointers
\* ------------------------------------------------------------------------
RECURSIVE WalkWorkers(_, _, _)
WalkWorkers(p, nxt, fuel) ==
    IF p = NULL \/ fuel = 0 THEN <<>>
    ELSE <<p>> \o WalkWorkers(nxt[p], nxt, fuel - 1)

\* the idle worker list, head first
IdleWorkers == WalkWorkers(idle_workers_head, pw_next, NumClients + 1)

RECURSIVE WalkSlots(_, _, _)
WalkSlots(p, nxt, fuel) ==
    IF p = NULL \/ fuel = 0 THEN <<>>
    ELSE <<p>> \o WalkSlots(nxt[p], nxt, fuel - 1)

\* the idle slot list, head (oldest idle) first
IdleSlots == WalkSlots(idle_clients_head, pc_next, NumClients + 1)

SeqSet(s) == {s[i] : i \in 1..Len(s)}

\* ------------------------------------------------------------------------
\* Digest utilities and the password response
\* ------------------------------------------------------------------------
\* lookup[] of digest_to_hex8: '0'..'9', 'a'..'f' as ASCII codes
HexLookup == <<48, 49, 50, 51, 52, 53, 54, 55, 56, 57, 97, 98, 99, 100, 101, 102>>

digest_to_hex8(data) == <<HexLookup[(data \div 16) + 1], HexLookup[(data % 16) + 1]>>

\* the four bytes of htonl(data) in memory: the most significant byte comes first
htonl(data) ==
    <<(data \div 16777216) % 256, (data \div 65536) % 256, (data \div 256) % 256, data % 256>>

\* the value of four bytes in network order; the numbers of the model
\* checker end at 2^31 - 1, so it is applied to a first byte below 128 only
ntohl(parts) == ((parts[1] * 256 + parts[2]) * 256 + parts[3]) * 256 + parts[4]

digest_to_hex32_be(tgt) ==
    digest_to_hex8(tgt[1]) \o digest_to_hex8(tgt[2]) \o digest_to_hex8(tgt[3])
        \o digest_to_hex8(tgt[4])

digest_to_hex32(data) == digest_to_hex32_be(htonl(data))

\* a variant of hex4_to_digest that knows the upper case letters only
hex4_to_digest_upper(data) ==
    LET base == IF data > 57 THEN 55 ELSE 48
    IN IF data > 70 THEN 0 ELSE IF data < base THEN 0 ELSE (data - base) % 256

\* hex4_to_digest: '0' is 48, '9' is 57, 'A' is 65, 'F' is 70, 'a' is 97, 'f' is 102
hex4_to_digest(data) ==
    LET base == IF data > 57 THEN (IF data > 70 THEN 97 - 10 ELSE 65 - 10) ELSE 48
    IN IF data > 102 THEN 0 ELSE IF data < base THEN 0 ELSE (data - base) % 256

hex8_to_digest(d1, d2) == (hex4_to_digest(d1) * 16 + hex4_to_digest(d2)) % 256

\* result.parts of hex32_to_digest
hex32_to_digest_parts(data) ==
    <<hex8_to_digest(data[1], data[2]), hex8_to_digest(data[3], data[4]),
      hex8_to_digest(data[5], data[6]), hex8_to_digest(data[7], data[8])>>

hex32_to_digest(data) == ntohl(hex32_to_digest_parts(data))

\* MD5 is not computed: it is an injective tag of its input (collision-free)
digest_get(data) == <<"MD5", data>>

\* a variant of the loop that copies every character as it is
UpperChar_copy(ch) == ch

\* the loop of get_password_response: ASCII lowercase letters are raised
UpperChar(ch) == IF ch >= 97 /\ ch <= 122 THEN ch - 32 ELSE ch

get_password_response(nonce, password) ==
    digest_get([i \in 1..Len(password) |-> UpperChar(password[i])] \o digest_to_hex32(nonce))

\* ------------------------------------------------------------------------
\* Callsign filter
\* ------------------------------------------------------------------------
\* a compiled pattern is <<the set of subjects it matches>>, NULL is <<>>
\* what the regex engine does in one regex_is_match: "ok" (pcre2_match
\* matches or returns PCRE2_ERROR_NOMATCH), "no_match_data"
\* (pcre2_match_data_create_from_pattern returns NULL), "error" (pcre2_match
\* returns another error)
EngineOutcomes == {"ok", "no_match_data", "error"}

regex_is_match_engine(re, subject, engine) ==
    IF engine = "no_match_data" THEN -EINVAL
    ELSE IF engine = "error" THEN -EINVAL
    ELSE IF subject \in re[1] THEN 1 ELSE 0

\* regex_is_match with an engine that does not fail
regex_is_match(re, subject) == regex_is_match_engine(re, subject, "ok")

\* a variant of proxy_authorize_callsign that lets a callsign pass the
\* denial pattern unless the pattern matched
proxy_authorize_callsign_re_lax(re_denied, re_allowed, callsign, eng_denied, eng_allowed) ==
    IF re_denied # <<>> /\ regex_is_match_engine(re_denied, callsign, eng_denied) = 1 THEN 0
    ELSE IF re_allowed # <<>> /\ regex_is_match_engine(re_allowed, callsign, eng_allowed) # 1
         THEN 0
    ELSE 1

\* proxy_authorize_callsign for any two patterns of the configuration
proxy_authorize_callsign_re(re_denied, re_allowed, callsign, eng_denied, eng_allowed) ==
    IF re_denied # <<>> /\ regex_is_match_engine(re_denied, callsign, eng_denied) # 0 THEN 0
    ELSE IF re_allowed # <<>> /\ regex_is_match_engine(re_allowed, callsign, eng_allowed) # 1
         THEN 0
    ELSE 1

\* proxy_authorize_callsign with the patterns of this configuration
proxy_authorize_callsign(callsign) ==
    proxy_authorize_callsign_re(re_calls_denied, re_calls_allowed, callsign, "ok", "ok")

\* ------------------------------------------------------------------------
\* Worker primitive: the state changes made under worker_priv.mutex
\* ------------------------------------------------------------------------
\* a variant of worker_wake that signals only a worker that is not running
worker_wake_state_idle_only(st) ==
    IF st > WORKER_SIGNALED THEN WORKER_SIGNALED ELSE st

\* worker_wake: the new state, and its return value
worker_wake_state(st) == IF st > WORKER_STOPPING_AFTER_WORK THEN WORKER_SIGNALED ELSE st
worker_wake_ret(st) == IF st > WORKER_STOPPING_AFTER_WORK THEN 0 ELSE -EINVAL

\* a variant of worker_join that treats a signaled worker like any other
worker_join_state_plain(st) ==
    IF st > WORKER_STOPPING_AFTER_WORK THEN WORKER_STOPPING ELSE st

\* worker_join: the new state (thread_join follows)
worker_join_state(st) ==
    IF st > WORKER_STOPPING_AFTER_WORK
    THEN (IF st = WORKER_SIGNALED THEN WORKER_STOPPING_AFTER_WORK ELSE WORKER_STOPPING)
    ELSE st

\* worker_func, one pass of its loop under the mutex: <<new state, what the thread does next>>
\* "run" = unlock and call func_ptr, "wait" = condvar_wait, "exit" = thread returns
worker_func_step(st) ==
    IF st = WORKER_SIGNALED THEN <<WORKER_BUSY, "run">>
    ELSE IF st = WORKER_STOPPING_AFTER_WORK THEN <<WORKER_STOPPING, "run">>
    ELSE IF st <= WORKER_STOPPING THEN <<WORKER_STOPPED, "exit">>
    ELSE <<WORKER_IDLE, "wait">>

\* ------------------------------------------------------------------------
\* Registration: registration_service_update under the registration mutex
\* <<status, slots_used, slots_total>> after the call
\* ------------------------------------------------------------------------
\* a variant of the status rule that is Busy only beyond the total
registration_status_for_strict(slots_used, slots_total) ==
    IF slots_used > slots_total THEN REGISTRATION_STATUS_BUSY ELSE REGISTRATION_STATUS_READY

registration_status_for(slots_used, slots_total) ==
    IF slots_used >= slots_total THEN REGISTRATION_STATUS_BUSY ELSE REGISTRATION_STATUS_READY

registration_service_update(status, old_used, old_total, slots_used, slots_total) ==
    IF status < REGISTRATION_STATUS_OFF
    THEN <<registration_status_for(slots_used, slots_total), slots_used, slots_total>>
    ELSE <<status, old_used, old_total>>


\* ------------------------------------------------------------------------
\* Initial state: after proxy_init, proxy_open and proxy_start
\* ------------------------------------------------------------------------
InitProxy ==
    /\ usable_clients = NumClients
    /\ num_clients = NumClients
    \* proxy_open pushes worker 1, then 2, ...: the last pushed is the head
    /\ idle_workers_head = NumClients
    /\ pw_next = [w \in Workers |-> w - 1]
    \* proxy_open links the slots in array order
    /\ idle_clients_head = 1
    /\ pc_next = [s \in Slots |-> IF s < NumClients THEN s + 1 ELSE NULL]
    /\ pc_prev_ptr = [s \in Slots |-> s - 1]
    /\ idle_clients_tail_ptr = NumClients
    /\ listen = "open"
    /\ pw_conn = [w \in Workers |-> NULL]
    /\ pw_callsign = [w \in Workers |-> ""]
    /\ pw_nonce = [w \in Workers |-> 0]
    /\ pw_pc = [w \in Workers |-> NULL]
    \* worker_start: WORKER_STARTING, the thread enters worker_func
    /\ wstate = [w \in Workers |-> WORKER_STARTING]
    /\ wpc = [w \in Workers |-> "loop"]
    /\ pc_conn = [s \in Slots |-> NULL]
    /\ pc_callsign = [s \in Slots |-> ""]
    /\ conn_state = [c \in Conns |-> "none"]
    /\ conn_frees = [c \in Conns |-> 0]
    /\ conn_auth = [c \in Conns |-> "none"]
    /\ conn_worker = [c \in Conns |-> NULL]
    /\ conn_sent = [c \in Conns |-> <<>>]
    /\ mainPc = "process"
    /\ mainConn = NULL
    /\ mainWorker = NULL
    /\ mainRet = 0
    /\ closeIdx = 0
    /\ sigPc = "idle"

InitRegIdle ==
    /\ upd_pc = [t \in Threads |-> "idle"]
    /\ upd_total = [t \in Threads |-> 0]
    /\ upd_used = [t \in Threads |-> 0]
    \* proxy_start's proxy_update_registration: 0 used of NumClients
    /\ reg_status = registration_status_for(0, NumClients)
    /\ reg_slots_used = 0
    /\ reg_slots_total = NumClients

\* ------------------------------------------------------------------------
\* conn_free + free of an accepted connection; conn_drop
\* ------------------------------------------------------------------------
ConnFree(c) ==
    /\ conn_state' = [conn_state EXCEPT ![c] = "freed"]
    /\ conn_frees' = [conn_frees EXCEPT ![c] = @ + 1]
    \* what the model remembers about a connection ends with it
    /\ conn_auth' = [conn_auth EXCEPT ![c] = "none"]
    /\ conn_worker' = [conn_worker EXCEPT ![c] = NULL]
    /\ conn_sent' = [conn_sent EXCEPT ![c] = <<>>]

\* conn_drop: shutdown of the connected socket; nothing to do once dropped
conn_drop(c) == [conn_state EXCEPT ![c] = IF @ = "open" THEN "shut" ELSE @]

\* ------------------------------------------------------------------------
\* proxy_update_registration, in its three critical sections, for thread t
\* ------------------------------------------------------------------------
\* under usable_clients_mutex (shared)
UpdReadTotal(t) ==
    /\ upd_total' = [upd_total EXCEPT ![t] = usable_clients]
    /\ upd_used' = [upd_used EXCEPT ![t] = num_clients]

\* under idle_workers_mutex (shared): slots_used-- for every idle worker
UpdCountIdle(t) ==
    /\ upd_used' = [upd_used EXCEPT ![t] = @ - Len(IdleWorkers)]
    /\ UNCHANGED upd_total

\* registration_service_update(slots_used, slots_total); the locals die
UpdRegister(t) ==
    LET r == registration_service_update(reg_status, reg_slots_used, reg_slots_total,
                                         upd_used[t], upd_total[t])
    IN /\ reg_status' = r[1]
       /\ reg_slots_used' = r[2]
       /\ reg_slots_total' = r[3]
       /\ upd_total' = [upd_total EXCEPT ![t] = 0]
       /\ upd_used' = [upd_used EXCEPT ![t] = 0]

regVars == <<reg_status, reg_slots_used, reg_slots_total>>
updVars == <<upd_total, upd_used>>
connVars == <<conn_state, conn_frees, conn_auth, conn_worker, conn_sent>>
mainVars == <<mainPc, mainConn, mainWorker, mainRet, closeIdx>>
privVars == <<usable_clients, num_clients, listen>>

\* ------------------------------------------------------------------------
\* proxy_process (main thread)
\* ------------------------------------------------------------------------
\* conn_accept returns a new connection
ProxyProcessAccept ==
    /\ mainPc = "process"
    /\ listen = "open"
    /\ \E c \in Conns :
        /\ conn_state[c] = "none"
        /\ \A d \in Conns : d < c => conn_state[d] # "none"
        /\ conn_state' = [conn_state EXCEPT ![c] = "open"]
        /\ mainConn' = c
    /\ mainPc' = "pop"
    /\ UNCHANGED <<privVars, workerVars, slotVars, conn_frees, conn_auth, conn_worker, conn_sent,
                   mainWorker, mainRet, closeIdx, sigPc>>

\* conn_accept fails on the shut-down listener: proxy_process returns the error
ProxyProcessAcceptFail ==
    /\ mainPc = "process"
    /\ listen = "shut"
    /\ mainPc' = "stopped"
    /\ mainRet' = -EINVAL
    /\ UNCHANGED <<privVars, workerVars, slotVars, connVars, mainConn, mainWorker,
                   closeIdx, sigPc>>

\* a variant of the pop that leaves the last idle worker on the list
ProxyProcessPop_spare ==
    /\ mainPc = "pop"
    /\ IF usable_clients > 0 /\ idle_workers_head # NULL /\ pw_next[idle_workers_head] # NULL
       THEN /\ mainWorker' = idle_workers_head
            /\ idle_workers_head' = pw_next[idle_workers_head]
            /\ mainPc' = "handoff"
       ELSE /\ mainPc' = "discard"
            /\ UNCHANGED <<mainWorker, idle_workers_head>>
    /\ UNCHANGED <<privVars, pw_conn, pw_next, pw_callsign, pw_nonce, pw_pc, wstate, wpc,
                   slotVars, connVars, mainConn, mainRet, closeIdx, sigPc>>

\* under usable_clients_mutex (shared) and idle_workers_mutex: pop a worker
ProxyProcessPop ==
    /\ mainPc = "pop"
    /\ IF usable_clients > 0 /\ idle_workers_head # NULL
       THEN /\ mainWorker' = idle_workers_head
            /\ idle_workers_head' = pw_next[idle_workers_head]
            /\ mainPc' = "handoff"
       ELSE /\ mainPc' = "discard"
            /\ UNCHANGED <<mainWorker, idle_workers_head>>
    /\ UNCHANGED <<privVars, pw_conn, pw_next, pw_callsign, pw_nonce, pw_pc, wstate, wpc,
                   slotVars, connVars, mainConn, mainRet, closeIdx, sigPc>>

\* a variant of the discard path that reports the lack of a worker as an error
ProxyProcessDiscard_err ==
    /\ mainPc = "discard"
    /\ ConnFree(mainConn)
    /\ mainRet' = -EBUSY
    /\ mainConn' = NULL
    /\ mainPc' = "process"
    /\ UNCHANGED <<privVars, workerVars, slotVars, mainWorker, closeIdx, sigPc>>

\* worker == NULL: "Dropping client because there are no available slots"
ProxyProcessDiscard ==
    /\ mainPc = "discard"
    /\ ConnFree(mainConn)
    /\ mainRet' = 0
    /\ mainConn' = NULL
    /\ mainPc' = "process"
    /\ UNCHANGED <<privVars, workerVars, slotVars, mainWorker, closeIdx, sigPc>>

\* a variant of proxy_worker_accept whose wake-up leaves a Busy worker Busy
ProxyWorkerAccept_busy ==
    /\ mainPc = "handoff"
    /\ LET w == mainWorker
           ret == IF pw_conn[w] # NULL THEN -EBUSY ELSE worker_wake_ret(wstate[w])
       IN /\ mainRet' = ret
          /\ IF ret = 0
             THEN /\ pw_conn' = [pw_conn EXCEPT ![w] = mainConn]
                  /\ wstate' = [wstate EXCEPT ![w] =
                                    IF @ = WORKER_BUSY THEN @ ELSE worker_wake_state(@)]
                  /\ conn_worker' = [conn_worker EXCEPT ![mainConn] = w]
                  /\ UNCHANGED <<conn_state, conn_frees, conn_auth, conn_sent>>
             ELSE /\ ConnFree(mainConn)
                  /\ UNCHANGED <<pw_conn, wstate>>
    /\ mainConn' = NULL
    /\ mainWorker' = NULL
    /\ mainPc' = "process"
    /\ UNCHANGED <<privVars, idle_workers_head, pw_next, pw_callsign, pw_nonce, pw_pc, wpc,
                   slotVars, closeIdx, sigPc>>

\* proxy_worker_accept(worker, conn) under pw->mutex, then the return of
\* proxy_process; on failure proxy_process frees the connection itself
ProxyWorkerAccept ==
    /\ mainPc = "handoff"
    /\ LET w == mainWorker
           ret == IF pw_conn[w] # NULL THEN -EBUSY ELSE worker_wake_ret(wstate[w])
       IN /\ mainRet' = ret
          /\ IF ret = 0
             THEN /\ pw_conn' = [pw_conn EXCEPT ![w] = mainConn]
                  /\ wstate' = [wstate EXCEPT ![w] = worker_wake_state(@)]
                  /\ conn_worker' = [conn_worker EXCEPT ![mainConn] = w]
                  /\ UNCHANGED <<conn_state, conn_frees, conn_auth, conn_sent>>
             ELSE /\ ConnFree(mainConn)
                  /\ UNCHANGED <<pw_conn, wstate>>
    /\ mainConn' = NULL
    /\ mainWorker' = NULL
    /\ mainPc' = "process"
    /\ UNCHANGED <<privVars, idle_workers_head, pw_next, pw_callsign, pw_nonce, pw_pc, wpc,
                   slotVars, closeIdx, sigPc>>


\* ------------------------------------------------------------------------
\* The client worker threads: worker_func around proxy_worker_func
\* ------------------------------------------------------------------------
SetWpc(w, pos) == wpc' = [wpc EXCEPT ![w] = pos]

\* one pass of worker_func's loop under the worker mutex
WorkerFunc(w) ==
    /\ wpc[w] = "loop"
    /\ LET r == worker_func_step(wstate[w])
       IN /\ wstate' = [wstate EXCEPT ![w] = r[1]]
          /\ SetWpc(w, IF r[2] = "run" THEN "func" ELSE IF r[2] = "wait" THEN "wait" ELSE "exited")
    /\ UNCHANGED <<privVars, idle_workers_head, pw_conn, pw_next, pw_callsign, pw_nonce, pw_pc,
                   slotVars, connVars, mainVars, sigPc>>

\* condvar_wait returns: worker_wake and worker_join broadcast exactly when
\* they take the state away from WORKER_IDLE
WorkerWakeUp(w) ==
    /\ wpc[w] = "wait"
    /\ wstate[w] # WORKER_IDLE
    /\ SetWpc(w, "loop")
    /\ UNCHANGED <<privVars, idle_workers_head, pw_conn, pw_next, pw_callsign, pw_nonce, pw_pc,
                   wstate, slotVars, connVars, mainVars, sigPc>>

\* proxy_worker_func entry: the check of pw->conn_client
FuncStart(w) ==
    /\ wpc[w] = "func"
    /\ SetWpc(w, IF pw_conn[w] = NULL THEN "loop" ELSE "auth_send")
    /\ UNCHANGED <<privVars, idle_workers_head, pw_conn, pw_next, pw_callsign, pw_nonce, pw_pc,
                   wstate, slotVars, connVars, mainVars, sigPc>>

\* the SYSTEM frames of proxy_worker_authorize, and the 8 characters of the nonce
msg_bad_pw == <<7, 0, 0, 0, 0, 1, 0, 0, 0, 1>>
msg_bad_auth == <<7, 0, 0, 0, 0, 1, 0, 0, 0, 2>>
nonce_str == <<"nonce">>

\* proxy_worker_authorize: get_nonce and conn_send of the nonce (which fails
\* when the peer is gone)
AuthSend(w) ==
    /\ wpc[w] = "auth_send"
    /\ \E n \in Nonces, ok \in BOOLEAN :
        IF ok THEN /\ pw_nonce' = [pw_nonce EXCEPT ![w] = n]
                   /\ SetWpc(w, "auth_recv")
        ELSE /\ SetWpc(w, "fail_free")
             /\ UNCHANGED pw_nonce
    /\ conn_sent' = [conn_sent EXCEPT ![pw_conn[w]] = Append(@, nonce_str)]
    /\ UNCHANGED <<privVars, idle_workers_head, pw_conn, pw_next, pw_callsign, pw_pc,
                   wstate, slotVars, conn_state, conn_frees, conn_auth, conn_worker, mainVars, sigPc>>

\* a variant that skips the callsign filter
proxy_worker_authorize_nofilter(nonce, callsign, response) ==
    IF response # get_password_response(nonce, Password) THEN -EACCES ELSE 0

\* proxy_worker_authorize from the received callsign line and response on:
\* the comparison with the expected response, then the callsign filter
proxy_worker_authorize(nonce, callsign, response) ==
    IF response # get_password_response(nonce, Password) THEN -EACCES
    ELSE IF proxy_authorize_callsign(callsign) # 1 THEN -EACCES
    ELSE 0

\* a variant that tests the callsign filter before the password
proxy_worker_authorize_sends_filter_first(nonce, callsign, response) ==
    IF proxy_authorize_callsign(callsign) # 1 THEN <<msg_bad_auth>>
    ELSE IF response # get_password_response(nonce, Password) THEN <<msg_bad_pw>>
    ELSE <<>>

\* a variant that answers a denied callsign with the frame of a bad password
proxy_worker_authorize_sends_one_frame(nonce, callsign, response) ==
    IF response # get_password_response(nonce, Password) THEN <<msg_bad_pw>>
    ELSE IF proxy_authorize_callsign(callsign) # 1 THEN <<msg_bad_pw>>
    ELSE <<>>

\* what proxy_worker_authorize passes to conn_send after the two conn_recv
proxy_worker_authorize_sends(nonce, callsign, response) ==
    IF response # get_password_response(nonce, Password) THEN <<msg_bad_pw>>
    ELSE IF proxy_authorize_callsign(callsign) # 1 THEN <<msg_bad_auth>>
    ELSE <<>>

\* what the client did, told by the protocol's rules (not by the code's path):
\* it answered the nonce sent to it or another one, with the configured
\* password or another one, under a callsign the filter admits or not
AuthFacts(right_nonce, right_password, callsign) ==
    IF ~(right_nonce /\ right_password) THEN "badpw"
    ELSE IF callsign \in DeniedCalls THEN "denied"
    ELSE "ok"

\* the client sends "<callsign>\n" and 16 bytes; both conn_recv complete
AuthRecv(w) ==
    /\ wpc[w] = "auth_recv"
    /\ \E callsign \in Callsigns, n \in Nonces, p \in Passwords :
        LET response == get_password_response(n, p)
        IN /\ pw_callsign' = [pw_callsign EXCEPT ![w] = callsign]
           /\ conn_auth' = [conn_auth EXCEPT ![pw_conn[w]] =
                                AuthFacts(n = pw_nonce[w], p = Password, callsign)]
           /\ conn_sent' = [conn_sent EXCEPT ![pw_conn[w]] =
                                @ \o proxy_worker_authorize_sends(pw_nonce[w], callsign, response)]
           /\ SetWpc(w, IF proxy_worker_authorize(pw_nonce[w], callsign, response) < 0
                        THEN "fail_free" ELSE "a_upd")
    /\ pw_nonce' = [pw_nonce EXCEPT ![w] = 0]
    /\ UNCHANGED <<privVars, idle_workers_head, pw_conn, pw_next, pw_pc, wstate, slotVars,
                   conn_state, conn_frees, conn_worker, mainVars, sigPc>>

\* no newline among the first 11 bytes: -EINVAL
AuthRecvInvalid(w) ==
    /\ wpc[w] = "auth_recv"
    /\ conn_auth' = [conn_auth EXCEPT ![pw_conn[w]] = "invalid"]
    /\ pw_nonce' = [pw_nonce EXCEPT ![w] = 0]
    /\ SetWpc(w, "fail_free")
    /\ UNCHANGED <<privVars, idle_workers_head, pw_conn, pw_next, pw_callsign, pw_pc, wstate,
                   slotVars, conn_state, conn_frees, conn_worker, conn_sent, mainVars, sigPc>>

\* conn_recv fails: the client hung up during the exchange
AuthRecvFail(w) ==
    /\ wpc[w] = "auth_recv"
    /\ conn_auth[pw_conn[w]] = "none"
    /\ conn_auth' = [conn_auth EXCEPT ![pw_conn[w]] = "lost"]
    /\ pw_nonce' = [pw_nonce EXCEPT ![w] = 0]
    /\ SetWpc(w, "fail_free")
    /\ UNCHANGED <<privVars, idle_workers_head, pw_conn, pw_next, pw_callsign, pw_pc, wstate,
                   slotVars, conn_state, conn_frees, conn_worker, conn_sent, mainVars, sigPc>>

\* authorization failed: conn_free, free, pw->conn_client = NULL under pw->mutex
FailFree(w) ==
    /\ wpc[w] = "fail_free"
    /\ ConnFree(pw_conn[w])
    /\ pw_conn' = [pw_conn EXCEPT ![w] = NULL]
    /\ SetWpc(w, "fail_push")
    /\ UNCHANGED <<privVars, idle_workers_head, pw_next, pw_callsign, pw_nonce, pw_pc, wstate,
                   slotVars, mainVars, sigPc>>

\* a variant of the push that leaves the worker off the idle worker list
PushIdleWorker_lost(w) ==
    /\ pw_next' = pw_next
    /\ idle_workers_head' = idle_workers_head

\* the push onto the idle worker list under idle_workers_mutex
PushIdleWorker(w) ==
    /\ pw_next' = [pw_next EXCEPT ![w] = idle_workers_head]
    /\ idle_workers_head' = w

\* ... and proxy_worker_func returns (no registration update on this path)
FailPush(w) ==
    /\ wpc[w] = "fail_push"
    /\ PushIdleWorker(w)
    /\ pw_callsign' = [pw_callsign EXCEPT ![w] = ""]
    /\ SetWpc(w, "loop")
    /\ UNCHANGED <<privVars, pw_conn, pw_nonce, pw_pc, wstate, slotVars, connVars,
                   mainVars, sigPc>>

\* proxy_update_registration after a successful authorization (its effect on
\* the registration state is the subject of SpecReg)
AuthUpdate(w) ==
    /\ wpc[w] = "a_upd"
    /\ SetWpc(w, "acquire")
    /\ UNCHANGED <<privVars, idle_workers_head, pw_conn, pw_next, pw_callsign, pw_nonce, pw_pc,
                   wstate, slotVars, connVars, mainVars, sigPc>>

\* ------------------------------------------------------------------------
\* Slot acquisition (proxy_worker_func under idle_clients_mutex)
\* ------------------------------------------------------------------------
\* proxy_conn_accept(pc, conn_client, callsign, reconnect_only): its return value
proxy_conn_accept(s, callsign, reconnect_only) ==
    IF pc_conn[s] # NULL THEN -EBUSY
    ELSE IF reconnect_only # 0 /\ callsign # pc_callsign[s] THEN -EBUSY
    ELSE 0

\* "First, check for a reconnect": the slot the while loop stops at, or NULL
RECURSIVE ReconnectPass(_, _, _)
ReconnectPass(p, callsign, fuel) ==
    IF p = NULL \/ fuel = 0 THEN NULL
    ELSE IF proxy_conn_accept(p, callsign, 1) # -EBUSY THEN p
    ELSE ReconnectPass(pc_next[p], callsign, fuel - 1)

\* a variant without the reconnect pass: always the head
ChosenSlot_head(callsign) == idle_clients_head

\* the slot the two passes end at: a reconnect match, else the head
ChosenSlot(callsign) ==
    LET r == ReconnectPass(idle_clients_head, callsign, NumClients + 1)
    IN IF r # NULL THEN r ELSE idle_clients_head

\* ret after the two passes
AcquireRet(callsign) ==
    LET r == ReconnectPass(idle_clients_head, callsign, NumClients + 1)
    IN IF r # NULL THEN proxy_conn_accept(r, callsign, 1)
       ELSE proxy_conn_accept(idle_clients_head, callsign, 0)

\* a variant of the unlink that leaves the tail pointer on the removed slot
UnlinkFrom_notail(head, next, prev_ptr, tail_ptr, s) ==
    LET head1 == IF prev_ptr[s] = 0 THEN next[s] ELSE head
        next1 == IF prev_ptr[s] = 0 THEN next
                 ELSE [next EXCEPT ![prev_ptr[s]] = next[s]]
        prev1 == IF next[s] = NULL THEN prev_ptr
                 ELSE [prev_ptr EXCEPT ![next[s]] = prev_ptr[s]]
    IN <<head1, next1, prev1, tail_ptr>>

\* the unlink of slot s from a list given by its head pointer, the slots'
\* next and prev_ptr fields and the tail pointer (0 = &head, t = &slot t's next):
\*   *pc->prev_ptr = pc->next;
\*   if (pc->next == NULL) tail_ptr = pc->prev_ptr;
\*   else pc->next->prev_ptr = pc->prev_ptr;
UnlinkFrom(head, next, prev_ptr, tail_ptr, s) ==
    LET head1 == IF prev_ptr[s] = 0 THEN next[s] ELSE head
        next1 == IF prev_ptr[s] = 0 THEN next
                 ELSE [next EXCEPT ![prev_ptr[s]] = next[s]]
        tail1 == IF next[s] = NULL THEN prev_ptr[s] ELSE tail_ptr
        prev1 == IF next[s] = NULL THEN prev_ptr
                 ELSE [prev_ptr EXCEPT ![next[s]] = prev_ptr[s]]
    IN <<head1, next1, prev1, tail1>>

\* a variant of the append that puts the slot at the head of the list
AppendTo_head(head, next, prev_ptr, tail_ptr, s) ==
    LET next1 == [next EXCEPT ![s] = head]
        prev0 == [prev_ptr EXCEPT ![s] = 0]
        prev1 == IF head = NULL THEN prev0 ELSE [prev0 EXCEPT ![head] = s]
        tail1 == IF head = NULL THEN s ELSE tail_ptr
    IN <<s, next1, prev1, tail1>>

\* the append of slot s at the tail:
\*   pc->next = NULL; pc->prev_ptr = tail_ptr; *tail_ptr = pc; tail_ptr = &pc->next;
AppendTo(head, next, prev_ptr, tail_ptr, s) ==
    LET next0 == [next EXCEPT ![s] = NULL]
        prev1 == [prev_ptr EXCEPT ![s] = tail_ptr]
        head1 == IF tail_ptr = 0 THEN s ELSE head
        next1 == IF tail_ptr = 0 THEN next0
                 ELSE [next0 EXCEPT ![tail_ptr] = s]
    IN <<head1, next1, prev1, s>>

\* a variant that leaves the slot in the pool
UnlinkSlot_keep(s) == <<idle_clients_head, pc_next, pc_prev_ptr, idle_clients_tail_ptr>>

\* "Remove the slot from the pool": the new <<head, next, prev_ptr, tail_ptr>>
UnlinkSlot(s) ==
    UnlinkFrom(idle_clients_head, pc_next, pc_prev_ptr, idle_clients_tail_ptr, s)

AcquireSlot(w) ==
    /\ wpc[w] = "acquire"
    /\ IF idle_clients_head = NULL \/ AcquireRet(pw_callsign[w]) < 0
       THEN \* "Idle slot pool is empty" / "Failed to acquire slot"
            /\ SetWpc(w, "exit_free")
            /\ UNCHANGED <<slotVars, pw_pc>>
       ELSE LET s == ChosenSlot(pw_callsign[w])
                u == UnlinkSlot(s)
            IN /\ pc_conn' = [pc_conn EXCEPT ![s] = pw_conn[w]]
               /\ pc_callsign' = [pc_callsign EXCEPT ![s] = pw_callsign[w]]
               /\ idle_clients_head' = u[1]
               /\ pc_next' = u[2]
               /\ pc_prev_ptr' = u[3]
               /\ idle_clients_tail_ptr' = u[4]
               /\ pw_pc' = [pw_pc EXCEPT ![w] = s]
               /\ SetWpc(w, "serve")
    /\ UNCHANGED <<privVars, idle_workers_head, pw_conn, pw_next, pw_callsign, pw_nonce, wstate,
                   connVars, mainVars, sigPc>>

\* the loop on proxy_conn_process ends: conn_recv fails on the dropped connection
ServeDropped(w) ==
    /\ wpc[w] = "serve"
    /\ conn_state[pw_conn[w]] = "shut"
    /\ SetWpc(w, "finish")
    /\ UNCHANGED <<privVars, idle_workers_head, pw_conn, pw_next, pw_callsign, pw_nonce, pw_pc,
                   wstate, slotVars, connVars, mainVars, sigPc>>

\* ... or the client hangs up, or sends a frame that makes processing fail
ServeClientGone(w) ==
    /\ wpc[w] = "serve"
    /\ conn_state[pw_conn[w]] = "open"
    /\ SetWpc(w, "finish")
    /\ UNCHANGED <<privVars, idle_workers_head, pw_conn, pw_next, pw_callsign, pw_nonce, pw_pc,
                   wstate, slotVars, connVars, mainVars, sigPc>>

\* a variant of proxy_conn_finish that leaves the binding in place
proxy_conn_finish_keep(w) ==
    /\ wpc[w] = "finish"
    /\ conn_state' = conn_drop(pw_conn[w])
    /\ SetWpc(w, "release")
    /\ UNCHANGED <<privVars, idle_workers_head, pw_conn, pw_next, pw_callsign, pw_nonce, pw_pc,
                   wstate, slotVars, conn_frees, conn_auth, conn_worker, conn_sent, mainVars, sigPc>>

\* proxy_conn_finish(pc): the client is shut down and the binding cleared
proxy_conn_finish(w) ==
    /\ wpc[w] = "finish"
    /\ conn_state' = conn_drop(pw_conn[w])
    /\ pc_conn' = [pc_conn EXCEPT ![pw_pc[w]] = NULL]
    /\ SetWpc(w, "release")
    /\ UNCHANGED <<privVars, idle_workers_head, pw_conn, pw_next, pw_callsign, pw_nonce, pw_pc,
                   wstate, idle_clients_head, idle_clients_tail_ptr, pc_callsign, pc_next,
                   pc_prev_ptr, conn_frees, conn_auth, conn_worker, conn_sent, mainVars, sigPc>>

\* a variant that leaves the slot out of the pool
AppendSlot_drop(s) ==
    <<idle_clients_head, [pc_next EXCEPT ![s] = NULL], pc_prev_ptr, idle_clients_tail_ptr>>

\* "Put the slot back in the pool": the new <<head, next, prev_ptr, tail_ptr>>
AppendSlot(s) ==
    AppendTo(idle_clients_head, pc_next, pc_prev_ptr, idle_clients_tail_ptr, s)

ReleaseSlot(w) ==
    /\ wpc[w] = "release"
    /\ LET u == AppendSlot(pw_pc[w])
       IN /\ idle_clients_head' = u[1]
          /\ pc_next' = u[2]
          /\ pc_prev_ptr' = u[3]
          /\ idle_clients_tail_ptr' = u[4]
    /\ pw_pc' = [pw_pc EXCEPT ![w] = NULL]
    /\ SetWpc(w, "exit_free")
    /\ UNCHANGED <<privVars, idle_workers_head, pw_conn, pw_next, pw_callsign, pw_nonce, wstate,
                   pc_conn, pc_callsign, connVars, mainVars, sigPc>>

\* a variant of the exit path that forgets the connection without freeing it
ExitFree_leak(w) ==
    /\ wpc[w] = "exit_free"
    /\ pw_conn' = [pw_conn EXCEPT ![w] = NULL]
    /\ SetWpc(w, "exit_push")
    /\ UNCHANGED <<privVars, idle_workers_head, pw_next, pw_callsign, pw_nonce, pw_pc, wstate,
                   slotVars, connVars, mainVars, sigPc>>

\* proxy_worker_func_exit: conn_free, free, pw->conn_client = NULL
ExitFree(w) ==
    /\ wpc[w] = "exit_free"
    /\ ConnFree(pw_conn[w])
    /\ pw_conn' = [pw_conn EXCEPT ![w] = NULL]
    /\ SetWpc(w, "exit_push")
    /\ UNCHANGED <<privVars, idle_workers_head, pw_next, pw_callsign, pw_nonce, pw_pc, wstate,
                   slotVars, mainVars, sigPc>>

ExitPush(w) ==
    /\ wpc[w] = "exit_push"
    /\ PushIdleWorker(w)
    /\ SetWpc(w, "x_upd")
    /\ UNCHANGED <<privVars, pw_conn, pw_callsign, pw_nonce, pw_pc, wstate, slotVars, connVars,
                   mainVars, sigPc>>

\* the closing proxy_update_registration, then proxy_worker_func returns
ExitUpdate(w) ==
    /\ wpc[w] = "x_upd"
    /\ pw_callsign' = [pw_callsign EXCEPT ![w] = ""]
    /\ SetWpc(w, "loop")
    /\ UNCHANGED <<privVars, idle_workers_head, pw_conn, pw_next, pw_nonce, pw_pc,
                   wstate, slotVars, connVars, mainVars, sigPc>>

\* ------------------------------------------------------------------------
\* proxy_shutdown from the signal handler
\* ------------------------------------------------------------------------
\* a variant of proxy_shutdown that also drops the client of the first slot
SigShutdown_drop ==
    /\ \/ /\ sigPc = "idle"
          /\ mainPc \in {"process", "pop", "handoff", "discard"}
          /\ usable_clients' = 0
          /\ sigPc' = "s_listen"
          /\ conn_state' = IF pc_conn[1] # NULL
                           THEN [conn_state EXCEPT ![pc_conn[1]] = "shut"] ELSE conn_state
          /\ UNCHANGED listen
       \/ /\ sigPc = "s_listen"
          /\ listen' = IF listen = "open" THEN "shut" ELSE listen
          /\ sigPc' = "done"
          /\ UNCHANGED <<usable_clients, conn_state>>
    /\ UNCHANGED <<num_clients, workerVars, slotVars, conn_frees, conn_auth, conn_worker, conn_sent, mainVars>>

SigShutdown ==
    /\ \/ /\ sigPc = "idle"
          /\ mainPc \in {"process", "pop", "handoff", "discard"}
          /\ usable_clients' = 0
          /\ sigPc' = "s_listen"
          /\ UNCHANGED listen
       \/ /\ sigPc = "s_listen"
          \* after proxy_update_registration: conn_shutdown(&priv->conn_listen)
          /\ listen' = IF listen = "open" THEN "shut" ELSE listen
          /\ sigPc' = "done"
          /\ UNCHANGED usable_clients
    /\ UNCHANGED <<num_clients, workerVars, slotVars, connVars, mainVars>>

\* ------------------------------------------------------------------------
\* proxy_close (main thread, between two calls of proxy_process)
\* ------------------------------------------------------------------------
\* registration_service_stop, then the inlined proxy_shutdown
CloseBegin ==
    /\ mainPc \in {"process", "stopped"}
    /\ mainPc' = "c_set"
    /\ UNCHANGED <<privVars, workerVars, slotVars, connVars, mainConn, mainWorker, mainRet,
                   closeIdx, sigPc>>

CloseShutdown ==
    /\ \/ /\ mainPc = "c_set"
          /\ usable_clients' = 0
          /\ mainPc' = "c_listen"
          /\ UNCHANGED <<listen, closeIdx>>
       \/ /\ mainPc = "c_listen"
          /\ listen' = IF listen = "open" THEN "shut" ELSE listen
          /\ mainPc' = "c_drop"
          /\ closeIdx' = 1
          /\ UNCHANGED usable_clients
    /\ UNCHANGED <<num_clients, workerVars, slotVars, connVars, mainConn, mainWorker, mainRet, sigPc>>

\* proxy_conn_drop(pc): conn_drop of the bound client, if any
proxy_conn_drop(s) == IF pc_conn[s] # NULL THEN conn_drop(pc_conn[s]) ELSE conn_state

\* proxy_drop: proxy_conn_drop on every slot in turn
CloseDrop ==
    /\ mainPc = "c_drop"
    /\ conn_state' = proxy_conn_drop(closeIdx)
    /\ IF closeIdx < num_clients
       THEN closeIdx' = closeIdx + 1 /\ UNCHANGED mainPc
       ELSE closeIdx' = 1 /\ mainPc' = "c_wreset"
    /\ UNCHANGED <<privVars, workerVars, slotVars, conn_frees, conn_auth, conn_worker, conn_sent, mainConn,
                   mainWorker, mainRet, sigPc>>

\* priv->idle_workers_head = NULL
CloseResetWorkers ==
    /\ mainPc = "c_wreset"
    /\ idle_workers_head' = NULL
    /\ mainPc' = "c_wjoin"
    /\ UNCHANGED <<privVars, pw_conn, pw_next, pw_callsign, pw_nonce, pw_pc, wstate, wpc,
                   slotVars, connVars, mainConn, mainWorker, mainRet, closeIdx, sigPc>>

\* proxy_worker_free -> worker_free -> worker_join: the state change
CloseJoinWorker ==
    /\ mainPc = "c_wjoin"
    /\ wstate' = [wstate EXCEPT ![closeIdx] = worker_join_state(@)]
    /\ mainPc' = "c_wwait"
    /\ UNCHANGED <<privVars, idle_workers_head, pw_conn, pw_next, pw_callsign, pw_nonce, pw_pc,
                   wpc, slotVars, connVars, mainConn, mainWorker, mainRet, closeIdx, sigPc>>

\* ... and thread_join, which returns once the worker's thread has returned
CloseWaitWorker ==
    /\ mainPc = "c_wwait"
    /\ wpc[closeIdx] = "exited"
    /\ IF closeIdx < num_clients
       THEN closeIdx' = closeIdx + 1 /\ mainPc' = "c_wjoin"
       ELSE closeIdx' = 0 /\ mainPc' = "c_free"
    /\ UNCHANGED <<privVars, workerVars, slotVars, connVars, mainConn, mainWorker, mainRet,
                   sigPc>>

\* the slot pool is reset and freed, the listener closed
CloseFree ==
    /\ mainPc = "c_free"
    /\ idle_clients_head' = NULL
    /\ idle_clients_tail_ptr' = -1
    /\ num_clients' = 0
    /\ listen' = "closed"
    /\ mainPc' = "closed"
    /\ UNCHANGED <<usable_clients, workerVars, pc_conn, pc_callsign, pc_next, pc_prev_ptr,
                   connVars, mainConn, mainWorker, mainRet, closeIdx, sigPc>>

\* ------------------------------------------------------------------------
\* The proxy: next-state relation and specifications
\* ------------------------------------------------------------------------
\* steps the program takes by itself
ProgramStep ==
    \/ ProxyProcessAcceptFail
    \/ ProxyProcessPop
    \/ ProxyProcessDiscard
    \/ ProxyWorkerAccept
    \/ \E w \in Workers :
        \/ WorkerFunc(w) \/ WorkerWakeUp(w) \/ FuncStart(w) \/ AuthSend(w)
        \/ FailFree(w) \/ FailPush(w) \/ AuthUpdate(w) \/ AcquireSlot(w)
        \/ ServeDropped(w) \/ proxy_conn_finish(w) \/ ReleaseSlot(w)
        \/ ExitFree(w) \/ ExitPush(w) \/ ExitUpdate(w)
    \/ CloseShutdown
    \/ CloseDrop
    \/ CloseResetWorkers
    \/ CloseJoinWorker
    \/ CloseWaitWorker
    \/ CloseFree
    \/ (sigPc # "idle" /\ SigShutdown)

\* steps that wait for a client, a signal or the caller of proxy_close
EnvStep ==
    \/ ProxyProcessAccept
    \/ \E w \in Workers : AuthRecv(w) \/ AuthRecvInvalid(w) \/ AuthRecvFail(w) \/ ServeClientGone(w)
    \/ (sigPc = "idle" /\ SigShutdown)
    \/ CloseBegin

\* ------------------------------------------------------------------------
\* Properties of the admission path (checked under Spec)
\* ------------------------------------------------------------------------
\* the workers on the idle worker list
IdleWorkerSet == SeqSet(IdleWorkers)

\* the slots on the idle slot list
IdleSlotSet == SeqSet(IdleSlots)

\* C1: every accepted connection is freed exactly once: never twice, and an
\* accepted connection that is not yet freed is held by proxy_process or by
\* the one worker it was handed to, which is then not on the idle worker list.
C1_ConnFreedExactlyOnce ==
    \A c \in Conns :
        /\ conn_frees[c] <= 1
        /\ (conn_state[c] = "freed") <=> (conn_frees[c] = 1)
        /\ conn_state[c] \in {"open", "shut"} =>
              \/ mainConn = c /\ conn_worker[c] = NULL
              \/ /\ conn_worker[c] \in Workers
                 /\ pw_conn[conn_worker[c]] = c
                 /\ conn_worker[c] \notin IdleWorkerSet
        /\ \A w \in IdleWorkerSet : pw_conn[w] = NULL

\* C1 witness: every connection the listener accepted has been freed, once,
\* at least one of them after having been served by a slot, and all workers
\* are back on the idle worker list
C1_Witness ==
    /\ \A c \in Conns : conn_state[c] = "freed" /\ conn_frees[c] = 1
    /\ IdleWorkerSet = Workers
    /\ \E s \in Slots : pc_callsign[s] # ""

\* positions of proxy_worker_func after a successful proxy_worker_authorize
\* and before the connection is freed
AdmittedPcs == {"a_upd", "acquire", "serve", "finish", "release"}

\* C2: a slot is bound only to a connection that answered its own nonce with
\* the configured password under a callsign the filter admits; a connection
\* that failed either check never gets to slot acquisition or service.
C2_BoundOnlyIfAuthorized ==
    /\ \A s \in Slots : pc_conn[s] # NULL => conn_auth[pc_conn[s]] = "ok"
    /\ \A w \in Workers : wpc[w] \in AdmittedPcs => conn_auth[pw_conn[w]] = "ok"
    /\ \A w \in Workers : (wpc[w] = "fail_free" /\ pw_callsign[w] # "")
                             => conn_auth[pw_conn[w]] \in {"badpw", "denied"}

\* C2 witness: one slot serves an authorized client while another worker
\* turns away a client whose callsign the filter denies
C2_Witness ==
    /\ \E s \in Slots : pc_conn[s] # NULL
    /\ \E w \in Workers : wpc[w] = "fail_free" /\ conn_auth[pw_conn[w]] = "denied"

\* C3 as stated: in every reachable state a slot has a client bound if and
\* only if it is absent from the idle slot list.
C3_BoundIffAbsent ==
    \A s \in Slots : (pc_conn[s] # NULL) <=> (s \notin IdleSlotSet)

\* C3 amended: a bound slot is absent from the idle slot list; an unbound slot
\* is on it, except the slot a worker has finished with and not yet put back
\* (between proxy_conn_finish and the re-append), and after proxy_close has
\* reset the list.
C3_BoundImpliesAbsent ==
    \A s \in Slots :
        /\ pc_conn[s] # NULL => s \notin IdleSlotSet
        /\ (pc_conn[s] = NULL /\ s \notin IdleSlotSet) =>
              \/ \E w \in Workers : wpc[w] = "release" /\ pw_pc[w] = s
              \/ mainPc = "closed"

\* C3 witness: a slot is bound and off the list while another is idle on it
C3_Witness ==
    \E s, t \in Slots : pc_conn[s] # NULL /\ s \notin IdleSlotSet /\ t \in IdleSlotSet

\* the idle slot list without slot s, order kept
RECURSIVE Without(_, _)
Without(q, s) ==
    IF q = <<>> THEN <<>>
    ELSE IF Head(q) = s THEN Without(Tail(q), s)
    ELSE <<Head(q)>> \o Without(Tail(q), s)

\* the slot the rule of the specification selects from idle list q for callsign c
SelectedSlot(q, c) ==
    LET m == {i \in 1..Len(q) : pc_callsign[q[i]] = c}
    IN IF m # {} THEN q[CHOOSE i \in m : \A j \in m : i <= j] ELSE q[1]

\* C4: when a worker acquires a slot from a non-empty idle list, it gets the
\* first idle slot whose last callsign is the client's, else the head; that
\* slot is bound to the client and it alone leaves the list, order kept.
C4_SlotSelection ==
    [][\A w \in Workers :
         (wpc[w] = "acquire" /\ wpc'[w] # "acquire" /\ IdleSlots # <<>>) =>
            LET sel == SelectedSlot(IdleSlots, pw_callsign[w])
            IN /\ wpc'[w] = "serve"
               /\ pw_pc'[w] = sel
               /\ pc_conn'[sel] = pw_conn[w]
               /\ pc_callsign'[sel] = pw_callsign[w]
               /\ IdleSlots' = Without(IdleSlots, sel)
               /\ \A t \in Slots \ {sel} : pc_conn'[t] = pc_conn[t] /\ pc_callsign'[t] = pc_callsign[t]
      ]_vars

\* C4 witness: a reconnecting client serves on the slot that last carried its
\* callsign although that slot was not the head: the slot's prev_ptr, untouched
\* since the unlink, still points into another slot, which stays idle
C4_Witness ==
    \E w \in Workers :
        /\ wpc[w] = "serve"
        /\ pc_prev_ptr[pw_pc[w]] # 0
        /\ IdleSlots # <<>>
        /\ pc_callsign[Head(IdleSlots)] \notin {"", pw_callsign[w]}

\* positions of proxy_close
ClosingPcs == {"c_set", "c_listen", "c_drop", "c_wreset", "c_wjoin", "c_wwait", "c_free"}

\* C7 as stated: proxy_close, called in any reachable state, returns without
\* the help of any client: while it runs, some thread of the program can step.
C7_CloseNeverStuck ==
    mainPc \in ClosingPcs => ENABLED ProgramStep

\* C8: a connection accepted while no worker is idle or usable_clients is 0 is
\* discarded: proxy_process frees it and returns 0, and its steps leave every
\* worker, every slot and every other connection as they were.
C8_DiscardLeavesAllUnchanged ==
    [][/\ (mainPc = "pop" /\ mainPc' # "pop" /\ (idle_workers_head = NULL \/ usable_clients = 0))
          => (mainPc' = "discard" /\ UNCHANGED <<workerVars, slotVars, connVars, mainConn>>)
       /\ (mainPc = "discard" /\ mainPc' # "discard")
          => /\ mainPc' = "process"
             /\ mainRet' = 0
             /\ conn_state'[mainConn] = "freed"
             /\ conn_frees'[mainConn] = 1
             /\ \A c \in Conns \ {mainConn} :
                   conn_state'[c] = conn_state[c] /\ conn_frees'[c] = conn_frees[c]
             /\ UNCHANGED <<workerVars, slotVars, usable_clients>>
      ]_vars

\* C8 witness: every worker still holds an earlier connection, and a later one
\* is freed: proxy_process found no idle worker for it, and returned 0
C8_Witness ==
    /\ mainPc = "process"
    /\ mainRet = 0
    /\ \E c \in Conns :
          /\ conn_state[c] = "freed"
          /\ \A w \in Workers : pw_conn[w] # NULL /\ pw_conn[w] < c

\* ------------------------------------------------------------------------
\* Registration updates: proxy_update_registration run by the client workers,
\* proxy_shutdown from the signal handler and proxy_close from the main
\* thread, against the idle worker list as the admission path changes it.
\* The registration state is written and never read back by the proxy.
\* ------------------------------------------------------------------------
ShutdownThreads == {MainThread, SigThread}

SetUpdPc(t, pos) == upd_pc' = [upd_pc EXCEPT ![t] = pos]

\* proxy_process pops the head of the idle worker list for a new connection
RegPop ==
    /\ upd_pc[MainThread] = "idle"
    /\ usable_clients > 0
    /\ idle_workers_head # NULL
    /\ idle_workers_head' = pw_next[idle_workers_head]
    /\ UNCHANGED <<usable_clients, listen, pw_next, regSpecVars>>

\* a worker that is done with its connection pushes itself back
RegPush(w) ==
    /\ upd_pc[w] = "idle"
    /\ w \notin SeqSet(IdleWorkers)
    /\ PushIdleWorker(w)
    /\ UNCHANGED <<usable_clients, listen, regSpecVars>>

\* a worker calls proxy_update_registration: the first critical section
RegUpdateCall(w) ==
    /\ upd_pc[w] = "idle"
    /\ UpdReadTotal(w)
    /\ SetUpdPc(w, "u1")
    /\ UNCHANGED <<usable_clients, listen, idle_workers_head, pw_next, regVars>>

\* proxy_update_registration as called by proxy_shutdown: the first critical section
RegUpdateRead(t) ==
    /\ upd_pc[t] = "u0"
    /\ UpdReadTotal(t)
    /\ SetUpdPc(t, "u1")
    /\ UNCHANGED <<usable_clients, listen, idle_workers_head, pw_next, regVars>>

RegUpdateCount(t) ==
    /\ upd_pc[t] = "u1"
    /\ UpdCountIdle(t)
    /\ SetUpdPc(t, "u2")
    /\ UNCHANGED <<usable_clients, listen, idle_workers_head, pw_next, regVars>>

RegUpdateRegister(t) ==
    /\ upd_pc[t] = "u2"
    /\ UpdRegister(t)
    /\ SetUpdPc(t, IF t \in ShutdownThreads THEN "u3" ELSE "idle")
    /\ UNCHANGED <<usable_clients, listen, idle_workers_head, pw_next>>

\* registration_service_stop, the first call of proxy_close: the status is Off
RegServiceStop ==
    /\ upd_pc[MainThread] = "idle"
    /\ reg_status' = REGISTRATION_STATUS_OFF
    /\ SetUpdPc(MainThread, "stopped")
    /\ UNCHANGED <<usable_clients, listen, idle_workers_head, pw_next, upd_total, upd_used,
                   reg_slots_used, reg_slots_total>>

\* proxy_shutdown: usable_clients = 0 under usable_clients_mutex
RegShutdownSet(t) ==
    /\ upd_pc[t] = (IF t = MainThread THEN "stopped" ELSE "idle")
    /\ usable_clients' = 0
    /\ SetUpdPc(t, "u0")
    /\ UNCHANGED <<listen, idle_workers_head, pw_next, upd_total, upd_used, regVars>>

\* proxy_shutdown: conn_shutdown of the listener, after the update
RegShutdownListen(t) ==
    /\ upd_pc[t] = "u3"
    /\ listen' = IF listen = "open" THEN "shut" ELSE listen
    /\ SetUpdPc(t, "done")
    /\ UNCHANGED <<usable_clients, idle_workers_head, pw_next, upd_total, upd_used, regVars>>

\* what the registration updates leave alone
regFrame == <<num_clients, idle_clients_head, idle_clients_tail_ptr, pw_conn, pw_callsign,
              pw_nonce, pw_pc, wstate, wpc, pc_conn, pc_callsign, pc_next, pc_prev_ptr,
              conn_state, conn_frees, conn_auth, conn_worker, conn_sent, mainPc, mainConn, mainWorker,
              mainRet, closeIdx, sigPc>>

\* C10 as stated: the registration update fired by proxy_shutdown sets the
\* reported status to Off.
C10_ShutdownReportsOff ==
    [][\A t \in ShutdownThreads :
         (upd_pc[t] = "u2" /\ upd_pc'[t] = "u3") => reg_status' = REGISTRATION_STATUS_OFF
      ]_vars

\* C10 amended: proxy_shutdown sets usable_clients to 0, and the registration
\* update it fires reports 0 total slots with status Busy; the status is Off
\* only where registration_service_stop had set it before (proxy_close), and
\* then the update changes nothing.
C10_ShutdownReportsBusy ==
    [][\A t \in ShutdownThreads :
         /\ upd_pc'[t] = "u0" /\ upd_pc[t] # "u0" => usable_clients' = 0
         /\ upd_pc[t] \in {"u0", "u1", "u2", "u3"} => usable_clients = 0
         /\ (upd_pc[t] = "u2" /\ upd_pc'[t] = "u3") =>
               IF reg_status = REGISTRATION_STATUS_OFF
               THEN UNCHANGED regVars
               ELSE /\ reg_status' = REGISTRATION_STATUS_BUSY
                    /\ reg_slots_total' = 0
      ]_vars

\* C10 witness: the signal handler's proxy_shutdown has fired its update while
\* a worker was idle and before proxy_close: the status is Busy, of 0 slots
C10_Witness ==
    /\ upd_pc[SigThread] = "u3"
    /\ upd_pc[MainThread] = "idle"
    /\ usable_clients = 0
    /\ idle_workers_head # NULL
    /\ reg_status = REGISTRATION_STATUS_BUSY
    /\ reg_slots_total = 0


\* ------------------------------------------------------------------------
\* The worker primitive (worker.c): one worker, its thread and its callers
\* ------------------------------------------------------------------------
\* calls the callers make in one run of the model
MaxCalls == 6

InitWorkerIdle ==
    /\ wk_state = WORKER_STOPPED
    /\ wk_thread = "none"
    /\ wk_notified = FALSE
    /\ wk_periodic_wake = 0
    /\ wk_join = "idle"
    /\ wk_calls = 0
    /\ wk_owed = "none"
    /\ wk_wi = "idle"
    /\ wk_join2 = "idle"

\* after worker_init: calloc leaves the state WORKER_STOPPED
InitWorker ==
    /\ wk_state = WORKER_STOPPED
    /\ wk_thread = "none"
    /\ wk_notified = FALSE
    /\ wk_periodic_wake \in {0, 1}
    /\ wk_join = "idle"
    /\ wk_calls = MaxCalls
    /\ wk_owed = "none"
    /\ wk_wi = "idle"
    /\ wk_join2 = "idle"

\* condvar_wake_all(&priv->condvar) reaches the thread if it is waiting
condvar_wake_all(notified) == notified \/ wk_thread = "wait"

\* condvar_wake_all(&priv->condvar_idle) reaches a caller blocked in worker_wait_idle
condvar_idle_wake_all(wi) == IF wi = "waiting" THEN "woken" ELSE wi

\* worker_start: a stopped worker gets a new thread (thread_start joins the old one)
worker_start ==
    /\ wk_calls > 0
    /\ wk_join = "idle"
    /\ wk_join2 = "idle"
    /\ wk_calls' = wk_calls - 1
    /\ IF wk_state <= WORKER_STOPPED
       THEN wk_state' = WORKER_STARTING /\ wk_thread' = "top"
       ELSE UNCHANGED <<wk_state, wk_thread>>
    /\ UNCHANGED <<wk_notified, wk_periodic_wake, wk_join, wk_owed, wk_wi, wk_join2>>

\* worker_wake, under the mutex; a return of 0 leaves a run owed
worker_wake ==
    /\ wk_calls > 0
    /\ wk_calls' = wk_calls - 1
    /\ wk_state' = worker_wake_state(wk_state)
    /\ wk_notified' = IF wk_state = WORKER_IDLE THEN condvar_wake_all(wk_notified) ELSE wk_notified
    /\ wk_owed' = IF worker_wake_ret(wk_state) = 0 THEN "owed" ELSE wk_owed
    /\ UNCHANGED <<wk_thread, wk_periodic_wake, wk_join, wk_wi, wk_join2>>

\* worker_join: the state change under the mutex ...
worker_join ==
    /\ wk_calls > 0
    /\ wk_join = "idle"
    /\ wk_calls' = wk_calls - 1
    /\ wk_state' = worker_join_state(wk_state)
    /\ wk_notified' = IF wk_state = WORKER_IDLE THEN condvar_wake_all(wk_notified) ELSE wk_notified
    /\ wk_join' = "joining"
    /\ wk_wi' = condvar_idle_wake_all(wk_wi)
    /\ UNCHANGED <<wk_thread, wk_periodic_wake, wk_owed, wk_join2>>

\* a variant of thread_join that does not wait for the thread
thread_join_early ==
    /\ wk_join = "joining"
    /\ wk_join' = "idle"
    /\ UNCHANGED <<wk_state, wk_thread, wk_notified, wk_periodic_wake, wk_calls, wk_owed, wk_wi, wk_join2>>

\* ... and thread_join: returns once the thread has returned (or never ran)
thread_join ==
    /\ wk_join = "joining"
    /\ wk_thread \in {"none", "done"}
    /\ wk_join' = "idle"
    /\ UNCHANGED <<wk_state, wk_thread, wk_notified, wk_periodic_wake, wk_calls, wk_owed, wk_wi, wk_join2>>

\* worker_join by a second caller while the first is still inside it
worker_join_again ==
    /\ wk_calls > 0
    /\ wk_join = "joining"
    /\ wk_join2 = "idle"
    /\ wk_calls' = wk_calls - 1
    /\ wk_state' = worker_join_state(wk_state)
    /\ wk_notified' = IF wk_state = WORKER_IDLE THEN condvar_wake_all(wk_notified) ELSE wk_notified
    /\ wk_wi' = condvar_idle_wake_all(wk_wi)
    /\ wk_join2' = "joining"
    /\ UNCHANGED <<wk_thread, wk_periodic_wake, wk_owed, wk_join>>

\* ... and its thread_join
thread_join_again ==
    /\ wk_join2 = "joining"
    /\ wk_thread \in {"none", "done"}
    /\ wk_join2' = "idle"
    /\ UNCHANGED <<wk_state, wk_thread, wk_notified, wk_periodic_wake, wk_calls, wk_owed, wk_wi,
                   wk_join>>

\* worker_func at the test of its loops, under the mutex
worker_func ==
    /\ wk_thread = "top"
    /\ LET r == worker_func_step(wk_state)
       IN /\ wk_state' = r[1]
          /\ wk_thread' = IF r[2] = "run" THEN "func" ELSE IF r[2] = "wait" THEN "wait" ELSE "done"
          /\ wk_owed' = IF r[2] = "run" /\ wk_owed = "owed" THEN "running" ELSE wk_owed
          /\ wk_wi' = IF r[2] = "wait" THEN condvar_idle_wake_all(wk_wi) ELSE wk_wi
    /\ wk_notified' = FALSE
    /\ UNCHANGED <<wk_periodic_wake, wk_join, wk_calls, wk_join2>>

\* wh->func_ptr(wh) returns
FuncReturn ==
    /\ wk_thread = "func"
    /\ wk_thread' = "top"
    /\ wk_owed' = IF wk_owed = "running" THEN "none" ELSE wk_owed
    /\ UNCHANGED <<wk_state, wk_notified, wk_periodic_wake, wk_join, wk_calls, wk_wi, wk_join2>>

\* the state after condvar_wait_time: an idle periodic worker signals itself
periodic_state(st) == IF st = WORKER_IDLE THEN WORKER_SIGNALED ELSE st

\* condvar_wait / condvar_wait_time returns after a wake-up
CondvarWaitReturn ==
    /\ wk_thread = "wait"
    /\ wk_notified
    /\ wk_state' = IF wk_periodic_wake > 0 THEN periodic_state(wk_state) ELSE wk_state
    /\ wk_thread' = "top"
    /\ wk_notified' = FALSE
    /\ UNCHANGED <<wk_periodic_wake, wk_join, wk_calls, wk_owed, wk_wi, wk_join2>>

\* condvar_wait_time times out
CondvarWaitTimeout ==
    /\ wk_thread = "wait"
    /\ wk_periodic_wake > 0
    /\ wk_state' = periodic_state(wk_state)
    /\ wk_thread' = "top"
    /\ wk_notified' = FALSE
    /\ UNCHANGED <<wk_periodic_wake, wk_join, wk_calls, wk_owed, wk_wi, wk_join2>>

\* a variant of worker_wait_idle that takes any live worker for an idle one
worker_wait_idle_step_live(st) ==
    IF st >= WORKER_BUSY THEN "ret_ok" ELSE "ret_err"

\* worker_wait_idle, one test of its loop under the mutex: the caller's next position
worker_wait_idle_step(st) ==
    IF st >= WORKER_IDLE THEN "ret_ok"
    ELSE IF st < WORKER_BUSY THEN "ret_err"
    ELSE "waiting"

\* worker_wait_idle is called
worker_wait_idle ==
    /\ wk_calls > 0
    /\ wk_wi \in {"idle", "ret_ok", "ret_err"}
    /\ wk_calls' = wk_calls - 1
    /\ wk_wi' = worker_wait_idle_step(wk_state)
    /\ UNCHANGED <<wk_state, wk_thread, wk_notified, wk_periodic_wake, wk_join, wk_owed, wk_join2>>

\* condvar_wait(&priv->condvar_idle) returns: the loop tests the state again
WaitIdleWoken ==
    /\ wk_wi = "woken"
    /\ wk_wi' = worker_wait_idle_step(wk_state)
    /\ UNCHANGED <<wk_state, wk_thread, wk_notified, wk_periodic_wake, wk_join, wk_calls, wk_owed, wk_join2>>

\* steps of the worker's thread that need no caller and no timer
WorkerThreadStep == worker_func \/ FuncReturn \/ CondvarWaitReturn

\* C5: a worker_wake that returned 0 is followed by an invocation of the work
\* function: the run it is owed stays recorded in the state (Signaled, or
\* StoppingAfterWork once worker_join overtook it) of a live thread until the
\* invocation begins, it does begin, and worker_join returns only after the
\* thread has returned with no run owed or running.
C5_WakeIsServed ==
    /\ [](wk_owed = "owed" =>
            /\ wk_state \in {WORKER_SIGNALED, WORKER_STOPPING_AFTER_WORK}
            /\ wk_thread \in {"top", "wait", "func"})
    /\ [][(wk_join = "joining" /\ wk_join' = "idle") =>
            (wk_owed = "none" /\ wk_thread \in {"none", "done"})]_vars
    /\ ((wk_owed = "owed") ~> (wk_owed = "running"))
    /\ ((wk_owed = "running") ~> (wk_owed = "none"))

\* C5 witness: worker_wake returned 0, worker_join was called before the run
\* began (the state is StoppingAfterWork), and the joiner is waiting
C5_Witness ==
    /\ wk_owed = "owed"
    /\ wk_state = WORKER_STOPPING_AFTER_WORK
    /\ wk_join = "joining"
    /\ wk_thread \in {"top", "wait"}

\* C11 as stated: worker_wake on a Busy or Signaled worker leaves the worker
\* state unchanged.
C11_WakeBusyOrSignaledNoOp ==
    [][(worker_wake /\ wk_state \in {WORKER_BUSY, WORKER_SIGNALED}) =>
          wk_state' = wk_state]_vars

\* C11 amended: worker_wake on a Signaled worker changes nothing (the pending
\* run stays the only one); on a Busy worker it returns 0 and sets the state
\* to Signaled, and the work function is invoked once more after the run in
\* progress has returned.
C11_WakeCoalescesOrReruns ==
    /\ [][worker_wake =>
            /\ wk_state = WORKER_SIGNALED => UNCHANGED <<wk_state, wk_thread, wk_notified>>
            /\ wk_state = WORKER_BUSY =>
                  /\ worker_wake_ret(wk_state) = 0
                  /\ wk_state' = WORKER_SIGNALED
                  /\ wk_owed' = "owed"
                  /\ UNCHANGED <<wk_thread, wk_notified>>]_vars
    /\ ((wk_thread = "func" /\ wk_owed = "owed") ~> (wk_thread = "func" /\ wk_owed = "running"))

\* C11 witness: worker_wake has been called during a run: the work function
\* is still running and the state is Signaled again
C11_Witness ==
    /\ wk_thread = "func"
    /\ wk_state = WORKER_SIGNALED
    /\ wk_owed = "owed"

\* C12: worker_wait_idle returns 0 only on finding the state at least Idle,
\* hence not Signaled or Busy and with no run owed to a worker_wake pending or
\* in progress; called on a Stopped worker it returns an error at once.
C12_WaitIdleReturnsWhenIdle ==
    [][/\ ((worker_wait_idle \/ WaitIdleWoken) /\ wk_wi' = "ret_ok") =>
             /\ wk_state >= WORKER_IDLE
             /\ wk_state \notin {WORKER_SIGNALED, WORKER_BUSY}
             /\ wk_owed = "none"
             /\ wk_thread # "func"
       /\ (worker_wait_idle /\ wk_state = WORKER_STOPPED) => wk_wi' = "ret_err"
      ]_vars

\* C12 witness: a caller of worker_wait_idle blocked behind a run, the run
\* owed to the worker_wake has completed, and the caller, woken by the worker,
\* is about to find it Idle
C12_Witness ==
    /\ wk_wi = "woken"
    /\ wk_state = WORKER_IDLE
    /\ wk_thread = "wait"
    /\ wk_owed = "none"
    /\ wk_periodic_wake = 0

\* C13: worker_join, called in any state, gets to return once the work
\* function has returned: the thread ends, and thread_join returns only then,
\* with the worker Stopped and no run in progress; worker_join on a Stopped
\* worker changes nothing and its thread_join has nothing to wait for.
C13_JoinTerminatesStopped ==
    /\ [][(thread_join \/ thread_join_again) =>
            (/\ wk_state = WORKER_STOPPED
             /\ wk_thread \in {"none", "done"}
             /\ wk_owed = "none"
             /\ UNCHANGED <<wk_state, wk_thread>>)]_vars
    /\ [][((worker_join \/ worker_join_again) /\ wk_state = WORKER_STOPPED) =>
            (/\ UNCHANGED <<wk_state, wk_thread, wk_notified, wk_owed>>
             /\ wk_thread \in {"none", "done"})]_vars
    /\ ((wk_join = "joining") ~> (wk_join = "idle" \/ wk_thread \in {"none", "done"}))
    /\ ((wk_join2 = "joining") ~> (wk_join2 = "idle" \/ wk_thread \in {"none", "done"}))

\* C13 witness: two callers are inside worker_join, the second having called
\* it while the worker was stopping, and the thread has ended: both return
C13_Witness ==
    /\ wk_join = "joining"
    /\ wk_join2 = "joining"
    /\ wk_state = WORKER_STOPPED
    /\ wk_thread = "done"

\* C15 as stated: while usable_clients > 0 a connection is discarded only if
\* every slot is bound to a client. Violated: the test is on the idle worker
\* list, and a worker that is still authorizing its client has no slot.
C15_DiscardOnlyIfAllSlotsBound ==
    [][(mainPc = "pop" /\ mainPc' = "discard" /\ usable_clients > 0)
          => \A s \in Slots : pc_conn[s] # NULL]_vars

\* C15 amended: while usable_clients > 0 a connection is discarded only if no
\* worker is on the idle worker list: every worker holds a connection
\* (authorizing it or serving it on a slot) or is on its way back to the list.
C15_DiscardOnlyIfNoIdleWorker ==
    [][(mainPc = "pop" /\ mainPc' = "discard" /\ usable_clients > 0)
          => /\ IdleWorkerSet = {}
             /\ \A w \in Workers : pw_conn[w] # NULL \/ wpc[w] \in {"fail_push", "exit_push"}]_vars

\* C15 witness: the server is running, a connection is about to be discarded
\* and a slot is unbound: its worker is still authorizing
C15_Witness ==
    /\ mainPc = "discard"
    /\ usable_clients > 0
    /\ \E s \in Slots : pc_conn[s] = NULL
    /\ \E w \in Workers : wpc[w] = "auth_recv"

\* C16: every accepted connection is held by at most one worker and bound to
\* at most one slot, and a slot bound to a connection is the slot acquired by
\* the worker that holds that connection.
C16_OneHolderOneSlot ==
    \A c \in Conns :
        /\ Cardinality({w \in Workers : pw_conn[w] = c}) <= 1
        /\ Cardinality({s \in Slots : pc_conn[s] = c}) <= 1
        /\ \A s \in Slots :
              pc_conn[s] = c => \E w \in Workers : pw_conn[w] = c /\ pw_pc[w] = s

\* C16 witness: two connections in service at once, each held by its own
\* worker and bound to the slot that worker acquired
C16_Witness ==
    \E w1, w2 \in Workers :
        /\ w1 # w2
        /\ wpc[w1] = "serve" /\ wpc[w2] = "serve"
        /\ pc_conn[pw_pc[w1]] = pw_conn[w1]
        /\ pc_conn[pw_pc[w2]] = pw_conn[w2]
        /\ pw_conn[w1] # pw_conn[w2]

\* C17: the steps of proxy_shutdown (from the signal handler, or inlined in
\* proxy_close) leave every slot's binding, last callsign and outbound
\* connection and every worker's held connection as they were; a worker
\* serving a client stops serving only when the client is gone or its
\* connection was shut down, and a connection in service is shut down only by
\* proxy_drop.
C17_ShutdownKeepsClients ==
    /\ [][(sigPc' # sigPc \/ (mainPc \in {"c_set", "c_listen"} /\ mainPc' # mainPc))
             => /\ UNCHANGED <<pc_conn, pc_callsign, pw_conn, pw_pc, wpc, sl_conn_tcp>>
                /\ \A w \in Workers :
                      pw_conn[w] # NULL => conn_state'[pw_conn[w]] = conn_state[pw_conn[w]]]_vars
    /\ [][\A w \in Workers :
             (wpc[w] = "serve" /\ wpc'[w] # "serve")
                => (ServeClientGone(w) \/ conn_state[pw_conn[w]] = "shut")]_vars
    /\ [][\A w \in Workers :
             (wpc[w] = "serve" /\ conn_state[pw_conn[w]] = "open"
                  /\ conn_state'[pw_conn[w]] = "shut")
                => mainPc = "c_drop"]_vars

\* C17 witness: proxy_shutdown has returned and a client is still in service
\* on its slot, its connection open
C17_Witness ==
    /\ sigPc = "done"
    /\ usable_clients = 0
    /\ mainPc = "process"
    /\ \E w \in Workers :
          /\ wpc[w] = "serve"
          /\ pc_conn[pw_pc[w]] = pw_conn[w]
          /\ conn_state[pw_conn[w]] = "open"

\* the frames the proxy sent on connection c: all it sent but the nonce
FramesSent(c) == SelectSeq(conn_sent[c], LAMBDA m : Len(m) = Len(msg_bad_pw))

\* C18: a client whose 16 response bytes differ from the expected digest is
\* sent exactly one frame, SYSTEM with the payload byte 0x01 (bad password),
\* whatever its callsign; it is bound to no slot, its worker goes to the
\* failure exit, and the next thing that happens to the connection is its close.
C18_BadPasswordFrame ==
    /\ [](\A c \in Conns :
            conn_auth[c] = "badpw"
               => /\ FramesSent(c) = << <<7, 0, 0, 0, 0, 1, 0, 0, 0, 1>> >>
                  /\ \A s \in Slots : pc_conn[s] # c
                  /\ \E w \in Workers : pw_conn[w] = c /\ wpc[w] = "fail_free")
    /\ [][\A c \in Conns :
            conn_auth[c] = "badpw"
               => \/ conn_sent'[c] = conn_sent[c] /\ conn_state'[c] = conn_state[c]
                  \/ conn_state'[c] = "freed"]_vars

\* C18 witness: a wrong response under a callsign the filter denies: the
\* nonce and the bad-password frame were sent, the worker is about to close
C18_Witness ==
    \E w \in Workers :
        /\ wpc[w] = "fail_free"
        /\ conn_auth[pw_conn[w]] = "badpw"
        /\ pw_callsign[w] \in DeniedCalls
        /\ conn_sent[pw_conn[w]] = <<nonce_str, msg_bad_pw>>

\* C19: a client with the right response and a callsign the filter denies is
\* sent exactly one frame, SYSTEM with the payload byte 0x02 (access denied);
\* it is bound to no slot, the connection is closed next, and the worker puts
\* itself back on the idle worker list.
C19_AccessDeniedFrame ==
    /\ [](\A c \in Conns :
            conn_auth[c] = "denied"
               => /\ FramesSent(c) = << <<7, 0, 0, 0, 0, 1, 0, 0, 0, 2>> >>
                  /\ \A s \in Slots : pc_conn[s] # c
                  /\ \E w \in Workers : pw_conn[w] = c /\ wpc[w] = "fail_free")
    /\ [][\A c \in Conns :
            conn_auth[c] = "denied"
               => \/ conn_sent'[c] = conn_sent[c] /\ conn_state'[c] = conn_state[c]
                  \/ conn_state'[c] = "freed"]_vars
    /\ [][\A w \in Workers :
            /\ (wpc[w] = "fail_free" /\ wpc'[w] # "fail_free") => wpc'[w] = "fail_push"
            /\ (wpc[w] = "fail_push" /\ wpc'[w] # "fail_push")
                  => (wpc'[w] = "loop" /\ idle_workers_head' = w)]_vars

\* C19 witness: the right response under a denied callsign: the nonce and
\* the access-denied frame were sent, the worker is about to close
C19_Witness ==
    \E w \in Workers :
        /\ wpc[w] = "fail_free"
        /\ conn_auth[pw_conn[w]] = "denied"
        /\ conn_sent[pw_conn[w]] = <<nonce_str, msg_bad_auth>>

\* ------------------------------------------------------------------------
\* One slot in service (proxy_conn.c): the message handler and the three
\* forwarders, all writing frames to the bound client connection
\* ------------------------------------------------------------------------
\* frames and datagrams the client and the remote hosts send in one run
MaxEvents == 4

Forwarders == {"tcp", "data", "control"}
Writers == {"process"} \cup Forwarders

\* positions inside conn_send on the client connection
SendPcs == {"send", "status_send", "close_send"}
\* positions in mutex_lock(&priv->mutex_client_send)
LockPcs == {"lock", "status_lock", "close_lock"}

\* msg->type each forwarder stamps on its frames
FrameType(t) ==
    IF t = "tcp" THEN "TCP_DATA" ELSE IF t = "data" THEN "UDP_DATA" ELSE "UDP_CONTROL"

InitSlotIdle ==
    /\ sl_mutex = "free"
    /\ sl_pc = [t \in Writers |-> "none"]
    /\ sl_conn_tcp = "closed"
    /\ sl_gen = 0
    /\ sl_held = 0
    /\ sl_out = <<>>
    /\ sl_events = 0

\* the client is authorized: the handler reads frames, the UDP forwarders run
InitSlot ==
    /\ sl_mutex = "free"
    /\ sl_pc = [t \in Writers |-> IF t = "tcp" THEN "none" ELSE "recv"]
    /\ sl_conn_tcp = "closed"
    /\ sl_gen = 0
    /\ sl_held = 0
    /\ sl_out = <<>>
    /\ sl_events = MaxEvents

SetSlPc(t, pos) == sl_pc' = [sl_pc EXCEPT ![t] = pos]

\* process_tcp_open_message up to conn_connect, which succeeds or fails
ProcTcpOpen ==
    /\ sl_pc["process"] = "recv"
    /\ sl_events > 0
    /\ sl_events' = sl_events - 1
    /\ \E ok \in BOOLEAN :
        IF ok THEN /\ sl_conn_tcp' = "open"
                   /\ sl_gen' = sl_gen + 1
                   /\ SetSlPc("process", "open_start")
        ELSE /\ SetSlPc("process", "status_lock")
             /\ UNCHANGED <<sl_conn_tcp, sl_gen>>
    /\ UNCHANGED <<sl_mutex, sl_held, sl_out>>

\* "Connection succeeded - start the thread": thread_start joins the
\* forwarder's previous thread, then forwarder_tcp runs
ProcThreadStart ==
    /\ sl_pc["process"] = "open_start"
    /\ sl_pc["tcp"] \in {"none", "done"}
    /\ sl_pc' = [sl_pc EXCEPT !["process"] = "status_lock", !["tcp"] = "recv"]
    /\ UNCHANGED <<sl_mutex, sl_conn_tcp, sl_gen, sl_held, sl_out, sl_events>>

\* a variant of the handler that sends its TCP_STATUS without taking the mutex
StatusLock_nolock ==
    /\ sl_pc["process"] = "status_lock"
    /\ SetSlPc("process", "status_send")
    /\ UNCHANGED <<sl_mutex, sl_conn_tcp, sl_gen, sl_held, sl_out, sl_events>>

\* mutex_lock(&priv->mutex_client_send) before the TCP_STATUS is sent
StatusLock ==
    /\ sl_pc["process"] = "status_lock"
    /\ sl_mutex = "free"
    /\ sl_mutex' = "process"
    /\ SetSlPc("process", "status_send")
    /\ UNCHANGED <<sl_conn_tcp, sl_gen, sl_held, sl_out, sl_events>>

\* conn_send of the TCP_STATUS frame, mutex_unlock; a failed send ends the handler
StatusSend ==
    /\ sl_pc["process"] = "status_send"
    /\ \E ok \in BOOLEAN :
        IF ok THEN /\ sl_out' = Append(sl_out, <<"TCP_STATUS", sl_gen>>)
                   /\ SetSlPc("process", "recv")
        ELSE /\ SetSlPc("process", "done")
             /\ UNCHANGED sl_out
    /\ sl_mutex' = "free"
    /\ UNCHANGED <<sl_conn_tcp, sl_gen, sl_held, sl_events>>

\* process_tcp_close_message: conn_close(&priv->conn_tcp)
ProcTcpClose ==
    /\ sl_pc["process"] = "recv"
    /\ sl_events > 0
    /\ sl_events' = sl_events - 1
    /\ sl_conn_tcp' = "closed"
    /\ UNCHANGED <<sl_mutex, sl_pc, sl_gen, sl_held, sl_out>>

\* process_tcp_data_message: the payload goes to the remote host, or the send
\* fails, conn_tcp is closed and send_tcp_close follows
ProcTcpData ==
    /\ sl_pc["process"] = "recv"
    /\ sl_events > 0
    /\ sl_events' = sl_events - 1
    /\ \E ok \in BOOLEAN :
        IF ok /\ sl_conn_tcp = "open"
        THEN UNCHANGED <<sl_conn_tcp, sl_pc>>
        ELSE sl_conn_tcp' = "closed" /\ SetSlPc("process", "close_lock")
    /\ UNCHANGED <<sl_mutex, sl_gen, sl_held, sl_out>>

\* conn_recv from the client fails: the handler's loop ends
ProcRecvFail ==
    /\ sl_pc["process"] = "recv"
    /\ SetSlPc("process", "done")
    /\ UNCHANGED <<sl_mutex, sl_conn_tcp, sl_gen, sl_held, sl_out, sl_events>>

\* conn_recv_any returns data: a frame is built
FwdRecv(t) ==
    /\ sl_pc[t] = "recv"
    /\ t = "tcp" => sl_conn_tcp = "open"
    /\ sl_events > 0
    /\ sl_events' = sl_events - 1
    /\ sl_held' = IF t = "tcp" THEN sl_gen ELSE sl_held
    /\ SetSlPc(t, "lock")
    /\ UNCHANGED <<sl_mutex, sl_conn_tcp, sl_gen, sl_out>>

\* mutex_lock(&priv->mutex_client_send) in a forwarder
FwdLock(t) ==
    /\ sl_pc[t] = "lock"
    /\ sl_mutex = "free"
    /\ sl_mutex' = t
    /\ SetSlPc(t, "send")
    /\ UNCHANGED <<sl_conn_tcp, sl_gen, sl_held, sl_out, sl_events>>

\* conn_send of the frame, mutex_unlock; on an error the forwarder closes its
\* own socket and returns
FwdSend(t) ==
    /\ sl_pc[t] = "send"
    /\ \E ok \in BOOLEAN :
        IF ok THEN /\ sl_out' = Append(sl_out, <<FrameType(t), IF t = "tcp" THEN sl_held ELSE 0>>)
                   /\ SetSlPc(t, "recv")
                   /\ UNCHANGED sl_conn_tcp
        ELSE /\ SetSlPc(t, "done")
             /\ sl_conn_tcp' = IF t = "tcp" THEN "closed" ELSE sl_conn_tcp
             /\ UNCHANGED sl_out
    /\ sl_mutex' = "free"
    /\ UNCHANGED <<sl_gen, sl_held, sl_events>>

\* forwarder_tcp: conn_recv_any ends (the remote host closed, or conn_tcp was
\* closed under it): conn_close(&priv->conn_tcp), then send_tcp_close
FwdTcpEnd ==
    /\ sl_pc["tcp"] = "recv"
    /\ sl_conn_tcp' = "closed"
    /\ sl_held' = sl_gen
    /\ SetSlPc("tcp", "close_lock")
    /\ UNCHANGED <<sl_mutex, sl_gen, sl_out, sl_events>>

\* send_tcp_close: mutex_lock ...
SendTcpCloseLock(t) ==
    /\ sl_pc[t] = "close_lock"
    /\ sl_mutex = "free"
    /\ sl_mutex' = t
    /\ SetSlPc(t, "close_send")
    /\ UNCHANGED <<sl_conn_tcp, sl_gen, sl_held, sl_out, sl_events>>

\* ... conn_send of the TCP_CLOSE frame, mutex_unlock; the handler goes on
\* reading, forwarder_tcp returns. The frame carries no connection number:
\* the model notes the connection whose end made the sender call send_tcp_close
send_tcp_close(t) ==
    /\ sl_pc[t] = "close_send"
    /\ \E ok \in BOOLEAN :
        sl_out' = IF ok THEN Append(sl_out, <<"TCP_CLOSE", IF t = "tcp" THEN sl_held ELSE sl_gen>>)
                  ELSE sl_out
    /\ sl_mutex' = "free"
    /\ SetSlPc(t, IF t = "process" THEN "recv" ELSE "done")
    /\ UNCHANGED <<sl_conn_tcp, sl_gen, sl_held, sl_events>>

\* C6: at most one of the four writers is inside conn_send on the client
\* connection at any time, and it is the holder of the client-send mutex.
C6_OneWriterInSend ==
    /\ Cardinality({t \in Writers : sl_pc[t] \in SendPcs}) <= 1
    /\ \A t \in Writers : sl_pc[t] \in SendPcs => sl_mutex = t

\* C6 witness: the handler is inside conn_send with its TCP_STATUS while the
\* TCP forwarder and a UDP forwarder hold frames and wait for the mutex
C6_Witness ==
    /\ sl_pc["process"] = "status_send"
    /\ sl_pc["tcp"] = "lock"
    /\ \E t \in {"data", "control"} : sl_pc[t] = "lock"

\* C9 as stated: a TCP_DATA frame carrying data received on an outbound
\* connection is written to the client only after the TCP_STATUS reply to the
\* TCP_OPEN that opened that connection.
C9_StatusBeforeData ==
    \A i \in 1..Len(sl_out) :
        sl_out[i][1] = "TCP_DATA" =>
            \E j \in 1..(i - 1) : sl_out[j] = <<"TCP_STATUS", sl_out[i][2]>>

\* the TCP_CLOSE frames written to the client for outbound connection g
TcpClosesFor(g) == {i \in 1..Len(sl_out) : sl_out[i] = <<"TCP_CLOSE", g>>}

\* C34 as stated: for each outbound connection opened by a TCP_OPEN the
\* client receives at most one TCP_CLOSE frame, whatever ends the connection.
C34_AtMostOneTcpClose ==
    \A g \in 1..MaxEvents : Cardinality(TcpClosesFor(g)) <= 1

\* ------------------------------------------------------------------------
\* Lock discipline: every call of the proxy as the sequence of lock and socket
\* operations it performs, run by the threads of the program in any
\* interleaving. Which call a thread makes next is left open.
\* ------------------------------------------------------------------------
ForwarderThread == NumClients + 3
LockThreads == 1..(NumClients + 3)

\* the locks: <<name, index>>, the index being the slot or the worker (0 if none)
usable_clients_mutex == <<"usable_clients", 0>>
idle_workers_mutex == <<"idle_workers", 0>>
idle_clients_mutex == <<"idle_clients", 0>>
mutex_client(s) == <<"client_binding", s>>
mutex_client_send(s) == <<"client_send", s>>

\* operations: <<op, lock>>; a send, recv or accept on a socket has no lock
mutex_lock(l) == <<"lock", l>>
mutex_lock_shared(l) == <<"lock_shared", l>>
mutex_unlock(l) == <<"unlock", l>>
SocketIo == <<"io", <<"none", 0>>>>

\* proxy_update_registration: the count of usable slots, then of idle workers
proxy_update_registration_usable ==
    <<mutex_lock_shared(usable_clients_mutex), mutex_unlock(usable_clients_mutex)>>
proxy_update_registration_idle ==
    <<mutex_lock_shared(idle_workers_mutex), mutex_unlock(idle_workers_mutex)>>

\* proxy_process: conn_accept, then the pop of an idle worker under both locks
proxy_process_locks ==
    <<SocketIo,
      mutex_lock_shared(usable_clients_mutex), mutex_lock(idle_workers_mutex),
      mutex_unlock(idle_workers_mutex), mutex_unlock(usable_clients_mutex)>>

\* proxy_shutdown: usable_clients is cleared, then proxy_update_registration
proxy_shutdown_locks ==
    <<mutex_lock(usable_clients_mutex), mutex_unlock(usable_clients_mutex)>>
        \o proxy_update_registration_usable \o proxy_update_registration_idle

\* proxy_conn_drop(pc)
proxy_conn_drop_locks(s) == <<mutex_lock_shared(mutex_client(s)), mutex_unlock(mutex_client(s))>>

\* proxy_conn_accept(pc, ...) and proxy_conn_finish(pc): the exclusive writer
\* of the slot's binding
proxy_conn_accept_locks(s) == <<mutex_lock(mutex_client(s)), mutex_unlock(mutex_client(s))>>
proxy_conn_finish_locks(s) == <<mutex_lock(mutex_client(s)), mutex_unlock(mutex_client(s))>>

\* proxy_conn_process(pc): the reply to a received frame is sent under the send mutex
proxy_conn_process_locks(s) ==
    <<mutex_lock(mutex_client_send(s)), SocketIo, mutex_unlock(mutex_client_send(s))>>

\* a forwarder of slot s: the received frame is sent under the send mutex
forwarder_locks(s) ==
    <<mutex_lock(mutex_client_send(s)), SocketIo, mutex_unlock(mutex_client_send(s))>>

\* proxy_worker_func: the worker pushes itself back on the idle list
worker_push_locks == <<mutex_lock(idle_workers_mutex), mutex_unlock(idle_workers_mutex)>>

\* proxy_worker_func: the reconnect pass over the idle slots from slot s on
RECURSIVE reconnect_pass_locks(_)
reconnect_pass_locks(s) ==
    IF s > NumClients THEN <<>> ELSE proxy_conn_accept_locks(s) \o reconnect_pass_locks(s + 1)

\* proxy_worker_func: the idle slot pool is found empty, or the slot is put back
worker_pool_locks == <<mutex_lock(idle_clients_mutex), mutex_unlock(idle_clients_mutex)>>

\* proxy_worker_func: a slot is chosen under the pool lock: the reconnect
\* pass over every slot, then the fall-back on the head
worker_bind_locks ==
    <<mutex_lock(idle_clients_mutex)>>
        \o reconnect_pass_locks(1) \o proxy_conn_accept_locks(1)
        \o <<mutex_unlock(idle_clients_mutex)>>

\* The calls of each thread, cut into their critical sections: between two
\* sections of a call the thread holds no lock, so each is entered on its own.
\* The signal handler graceful_shutdown runs proxy_shutdown in one piece. The
\* forwarder is the one of slot 1. The mutex of a worker (pw->mutex) is not
\* one of the five: it is only ever taken with nothing else held.
CallsOf(t) ==
    IF t \in Workers
    THEN {worker_push_locks, worker_pool_locks, worker_bind_locks,
          proxy_update_registration_usable, proxy_update_registration_idle}
            \cup {proxy_conn_process_locks(s) : s \in Slots}
            \cup {proxy_conn_finish_locks(s) : s \in Slots}
    ELSE IF t = MainThread
    THEN {proxy_process_locks} \cup {proxy_conn_drop_locks(s) : s \in Slots}
    ELSE IF t = SigThread THEN {proxy_shutdown_locks}
    ELSE {forwarder_locks(1), proxy_conn_drop_locks(1)}

InitLockIdle ==
    /\ lk_prog = [t \in LockThreads |-> <<>>]
    /\ lk_pc = [t \in LockThreads |-> 0]
    /\ lk_held = [t \in LockThreads |-> {}]
    /\ lk_on = 0

\* the operation thread t is at, if any; the thread a signal handler has
\* interrupted does not run until the handler returns
LockAt(t) == lk_pc[t] \in 1..Len(lk_prog[t]) /\ lk_on # t
LockOp(t) == lk_prog[t][lk_pc[t]]

\* a reader-writer lock (mutex_posix.c): the writer waits until no one holds
\* it, a reader until no writer holds it; the owner is not looked at
LockFree(t, l, mode) ==
    \A u \in LockThreads \ {t} :
        /\ <<l, "exclusive">> \notin lk_held[u]
        /\ mode = "exclusive" => <<l, "shared">> \notin lk_held[u]

LockMode(op) == IF op = "lock_shared" THEN "shared" ELSE "exclusive"

\* thread t moves past its operation; past the last one the call has returned
LockAdvance(t) ==
    IF lk_pc[t] < Len(lk_prog[t])
    THEN /\ lk_pc' = [lk_pc EXCEPT ![t] = @ + 1]
         /\ UNCHANGED <<lk_prog, lk_on>>
    ELSE /\ lk_pc' = [lk_pc EXCEPT ![t] = 0]
         /\ lk_prog' = [lk_prog EXCEPT ![t] = <<>>]
         /\ lk_on' = IF t = SigThread THEN 0 ELSE lk_on

\* a thread of the program enters one of its calls
LockCall(t) ==
    /\ t # SigThread
    /\ lk_on # t
    /\ lk_prog[t] = <<>>
    /\ \E prog \in CallsOf(t) : lk_prog' = [lk_prog EXCEPT ![t] = prog]
    /\ lk_pc' = [lk_pc EXCEPT ![t] = 1]
    /\ UNCHANGED <<lk_held, lk_on>>

\* a signal is delivered: graceful_shutdown runs on thread t, wherever t is
\* (a thread that is in no call is not held up by it)
SignalDelivered(t) ==
    /\ t # SigThread
    /\ lk_prog[SigThread] = <<>>
    /\ \E prog \in CallsOf(SigThread) : lk_prog' = [lk_prog EXCEPT ![SigThread] = prog]
    /\ lk_pc' = [lk_pc EXCEPT ![SigThread] = 1]
    /\ lk_on' = IF lk_prog[t] = <<>> THEN 0 ELSE t
    /\ UNCHANGED lk_held

\* mutex_lock / mutex_lock_shared returns
LockAcquire(t) ==
    /\ LockAt(t)
    /\ LockOp(t)[1] \in {"lock", "lock_shared"}
    /\ LockFree(t, LockOp(t)[2], LockMode(LockOp(t)[1]))
    /\ lk_held' = [lk_held EXCEPT ![t] = @ \cup {<<LockOp(t)[2], LockMode(LockOp(t)[1])>>}]
    /\ LockAdvance(t)

\* mutex_unlock / mutex_unlock_shared
LockRelease(t) ==
    /\ LockAt(t)
    /\ LockOp(t)[1] = "unlock"
    /\ lk_held' = [lk_held EXCEPT ![t] = {h \in @ : h[1] # LockOp(t)[2]}]
    /\ LockAdvance(t)

\* a send, recv or accept completes
LockIo(t) ==
    /\ LockAt(t)
    /\ LockOp(t)[1] = "io"
    /\ LockAdvance(t)
    /\ UNCHANGED lk_held

\* the order of the five locks
LockRank(l) ==
    CASE l[1] = "usable_clients" -> 1
      [] l[1] = "idle_workers" -> 2
      [] l[1] = "idle_clients" -> 3
      [] l[1] = "client_binding" -> 4
      [] l[1] = "client_send" -> 5

\* the thread a context runs on (the handler runs on the thread it interrupted)
\* and the context a thread is running
ThreadOf(c) == IF c = SigThread /\ lk_on # 0 THEN lk_on ELSE c
RunningOn(t) == IF lk_on = t THEN SigThread ELSE t
LockThreadSet == {ThreadOf(c) : c \in LockThreads}

\* the locks thread t holds
HeldByThread(t) == UNION {lk_held[c] : c \in {d \in LockThreads : ThreadOf(d) = t}}

\* thread t is inside mutex_lock / mutex_lock_shared on a lock thread u holds
BlockedOn(t, u) ==
    LET c == RunningOn(t) IN
    /\ LockAt(c)
    /\ LockOp(c)[1] \in {"lock", "lock_shared"}
    /\ \E h \in HeldByThread(u) :
        /\ h[1] = LockOp(c)[2]
        /\ h[2] = "exclusive" \/ LockOp(c)[1] = "lock"

\* a thread calling mutex_lock holds only locks that come earlier in the order
LockOrderKept ==
    \A c \in LockThreads :
        (LockAt(c) /\ LockOp(c)[1] \in {"lock", "lock_shared"})
        => \A h \in HeldByThread(ThreadOf(c)) :
            LockRank(h[1]) < LockRank(LockOp(c)[2])

\* the slot-level locks a thread holds are those of one slot
OneSlotLocked ==
    \A t \in LockThreadSet :
        Cardinality({h[1][2] : h \in {g \in HeldByThread(t) : LockRank(g[1]) >= 4}}) <= 1

\* a thread in a send, recv or accept does not hold idle_workers
NoIoUnderIdleWorkers ==
    \A c \in LockThreads :
        (LockAt(c) /\ LockOp(c)[1] = "io")
        => \A h \in HeldByThread(ThreadOf(c)) : h[1] # idle_workers_mutex

\* no set of threads each blocked on a lock that a thread of the set holds
NoLockCycle ==
    \A S \in SUBSET LockThreadSet :
        S # {} => \E t \in S : \A u \in S : ~BlockedOn(t, u)

\* C14: the five locks are taken in the order usable_clients, idle_workers,
\* idle_clients, slot binding, slot send: a thread that holds one acquires
\* only later ones, holds slot locks of one slot only, does not hold
\* idle_workers across a send or recv, and no set of threads is blocked in a
\* cycle. Violated: graceful_shutdown runs proxy_shutdown on the thread the
\* signal interrupts, whatever that thread holds.
C14_LockOrderAndNoDeadlock ==
    /\ LockOrderKept
    /\ OneSlotLocked
    /\ NoIoUnderIdleWorkers
    /\ NoLockCycle

\* the same with the handler on a thread of its own, or on one that is in no call
LockDisciplineUninterrupted ==
    lk_on = 0 => (LockOrderKept /\ OneSlotLocked /\ NoIoUnderIdleWorkers /\ NoLockCycle)

\* ------------------------------------------------------------------------
\* The registration worker (registration.c): registration_service_start and
\* _stop, registration_service_update with any counts, and registration_func
\* on the service's worker, which runs when woken and every UPDATE_INTERVAL
\* ------------------------------------------------------------------------
InitRegWorkerIdle ==
    /\ rw_state = "stopped"
    /\ rw_wstate = WORKER_STOPPED
    /\ rw_thread = "none"
    /\ rw_mid = FALSE
    /\ rw_off_sent = FALSE
    /\ rw_pc = "idle"
    /\ rw_snap = <<REGISTRATION_STATUS_UNKNOWN, 0, 0>>
    /\ rw_report = <<>>

\* after registration_service_init: calloc, and the status Unknown
InitRegService ==
    /\ upd_pc = [t \in Threads |-> "idle"]
    /\ upd_total = [t \in Threads |-> 0]
    /\ upd_used = [t \in Threads |-> 0]
    /\ reg_status = REGISTRATION_STATUS_UNKNOWN
    /\ reg_slots_used = 0
    /\ reg_slots_total = 0

\* registration_service_start: worker_start (WORKER_STARTING, a new thread),
\* worker_wake, Off becomes Unknown
registration_service_start ==
    /\ rw_state = "stopped"
    /\ rw_state' = "running"
    /\ rw_wstate' = worker_wake_state(WORKER_STARTING)
    /\ rw_thread' = "loop"
    /\ reg_status' = IF reg_status = REGISTRATION_STATUS_OFF
                     THEN REGISTRATION_STATUS_UNKNOWN ELSE reg_status
    /\ UNCHANGED <<reg_slots_used, reg_slots_total, rw_mid, rw_off_sent, rw_pc, rw_snap, rw_report>>

\* a variant of registration_service_stop that does not wake the worker
registration_service_stop_nowake ==
    /\ rw_state = "running"
    /\ rw_state' = "stop_join"
    /\ reg_status' = REGISTRATION_STATUS_OFF
    /\ rw_mid' = (rw_pc = "snap" /\ rw_snap[1] # REGISTRATION_STATUS_OFF)
    /\ rw_off_sent' = FALSE
    /\ UNCHANGED <<reg_slots_used, reg_slots_total, rw_wstate, rw_thread, rw_pc, rw_snap, rw_report>>

\* registration_service_stop under the registration mutex: the status Off, worker_wake
registration_service_stop ==
    /\ rw_state = "running"
    /\ rw_state' = "stop_join"
    /\ reg_status' = REGISTRATION_STATUS_OFF
    /\ rw_wstate' = worker_wake_state(rw_wstate)
    /\ rw_mid' = (rw_pc = "snap" /\ rw_snap[1] # REGISTRATION_STATUS_OFF)
    /\ rw_off_sent' = FALSE
    /\ UNCHANGED <<reg_slots_used, reg_slots_total, rw_thread, rw_pc, rw_snap, rw_report>>

\* registration_service_stop: worker_join up to thread_join
RegStopJoin ==
    /\ rw_state = "stop_join"
    /\ rw_state' = "stopping"
    /\ rw_wstate' = worker_join_state(rw_wstate)
    /\ UNCHANGED <<reg_status, reg_slots_used, reg_slots_total, rw_thread, rw_mid, rw_off_sent,
                   rw_pc, rw_snap, rw_report>>

\* thread_join returns once the worker's thread has returned
RegWorkerJoined ==
    /\ rw_state = "stopping"
    /\ rw_thread = "done"
    /\ rw_state' = "stopped"
    /\ rw_thread' = "none"
    /\ UNCHANGED <<reg_status, reg_slots_used, reg_slots_total, rw_wstate, rw_mid, rw_off_sent,
                   rw_pc, rw_snap, rw_report>>

\* a variant of the update that wakes the worker only out of its wait
RegServiceUpdate_idle_only ==
    /\ \E slots_used \in 0..NumClients, slots_total \in 0..NumClients :
        LET r == registration_service_update(reg_status, reg_slots_used, reg_slots_total,
                                             slots_used, slots_total)
        IN /\ reg_status' = r[1]
           /\ reg_slots_used' = r[2]
           /\ reg_slots_total' = r[3]
    /\ rw_wstate' = IF reg_status < REGISTRATION_STATUS_OFF /\ rw_wstate = WORKER_IDLE
                    THEN WORKER_SIGNALED ELSE rw_wstate
    /\ UNCHANGED <<rw_state, rw_thread, rw_mid, rw_off_sent, rw_pc, rw_snap, rw_report>>

\* registration_service_update(rs, slots_used, slots_total), from any thread:
\* unless the status is Off, the three fields and worker_wake
RegServiceUpdate ==
    /\ \E slots_used \in 0..NumClients, slots_total \in 0..NumClients :
        LET r == registration_service_update(reg_status, reg_slots_used, reg_slots_total,
                                             slots_used, slots_total)
        IN /\ reg_status' = r[1]
           /\ reg_slots_used' = r[2]
           /\ reg_slots_total' = r[3]
    /\ rw_wstate' = IF reg_status < REGISTRATION_STATUS_OFF
                    THEN worker_wake_state(rw_wstate) ELSE rw_wstate
    /\ UNCHANGED <<rw_state, rw_thread, rw_mid, rw_off_sent, rw_pc, rw_snap, rw_report>>

\* worker_func of the service's worker, one pass of its loop
RegWorkerLoop ==
    /\ rw_thread = "loop"
    /\ LET r == worker_func_step(rw_wstate)
       IN /\ rw_wstate' = r[1]
          /\ rw_thread' = IF r[2] = "run" THEN "func" ELSE IF r[2] = "wait" THEN "wait" ELSE "done"
    /\ UNCHANGED <<reg_status, reg_slots_used, reg_slots_total, rw_state, rw_mid, rw_off_sent,
                   rw_pc, rw_snap, rw_report>>

\* condvar_wait_time returns, woken or after UPDATE_INTERVAL: an idle worker
\* signals itself (periodic_wake > 0)
RegWorkerWakeUp ==
    /\ rw_thread = "wait"
    /\ rw_wstate' = IF rw_wstate = WORKER_IDLE THEN WORKER_SIGNALED ELSE rw_wstate
    /\ rw_thread' = "loop"
    /\ UNCHANGED <<reg_status, reg_slots_used, reg_slots_total, rw_state, rw_mid, rw_off_sent,
                   rw_pc, rw_snap, rw_report>>

\* a variant of the snapshot that keeps the counts it read the run before
registration_func_snapshot_stale == <<reg_status, rw_snap[2], rw_snap[3]>>

\* registration_func: the three fields read under the registration mutex
registration_func_snapshot == <<reg_status, reg_slots_used, reg_slots_total>>

\* registration_func up to mutex_unlock
RegFuncSnapshot ==
    /\ rw_thread = "func"
    /\ rw_pc = "idle"
    /\ rw_snap' = registration_func_snapshot
    /\ rw_pc' = "snap"
    /\ UNCHANGED <<reg_status, reg_slots_used, reg_slots_total, rw_state, rw_wstate, rw_thread,
                   rw_mid, rw_off_sent, rw_report>>

\* registration_func from the test of the status on: return, or send_report
\* and return
RegFuncReport ==
    /\ rw_thread = "func"
    /\ rw_pc = "snap"
    /\ rw_report' = IF rw_snap[1] <= REGISTRATION_STATUS_UNKNOWN THEN rw_report ELSE rw_snap
    /\ rw_off_sent' = (rw_off_sent \/ rw_snap[1] = REGISTRATION_STATUS_OFF)
    /\ rw_pc' = "idle"
    /\ rw_thread' = "loop"
    /\ UNCHANGED <<reg_status, reg_slots_used, reg_slots_total, rw_state, rw_wstate, rw_mid, rw_snap>>

\* steps of the worker's thread and of a caller inside registration_service_stop
RegWorkerStep == RegWorkerLoop \/ RegWorkerWakeUp \/ RegFuncSnapshot \/ RegFuncReport
RegStopStep == RegStopJoin \/ RegWorkerJoined

\* The latest update (checked under SpecRegLatest): the calls of
\* registration_service_update are counted, rl_busy notes whether the most
\* recent one came while the worker was between the snapshot and the report,
\* and rl_latest whether a report with its values has been attempted
MaxUpdates == 3

InitRegLatestIdle ==
    /\ rl_updates = 0
    /\ rl_busy = FALSE
    /\ rl_latest = TRUE

RegUpdateNoted ==
    /\ rl_updates < MaxUpdates
    /\ RegServiceUpdate
    /\ rl_updates' = rl_updates + 1
    /\ rl_busy' = (rw_thread = "func" /\ rw_pc = "snap")
    /\ rl_latest' = IF rw_state = "running" /\ reg_status < REGISTRATION_STATUS_OFF
                    THEN FALSE ELSE rl_latest

RegReportNoted ==
    /\ RegFuncReport
    /\ rl_latest' = (rl_latest \/ (/\ rw_snap[1] > REGISTRATION_STATUS_UNKNOWN
                                   /\ rw_snap = <<reg_status, reg_slots_used, reg_slots_total>>))
    /\ UNCHANGED <<rl_updates, rl_busy>>

\* condvar_wait_time returns because the condition variable was signalled ...
RegWorkerWoken == rw_wstate # WORKER_IDLE /\ RegWorkerWakeUp

\* ... or because UPDATE_INTERVAL has passed
RegWorkerTimeout == rw_wstate = WORKER_IDLE /\ RegWorkerWakeUp

\* the steps the worker's thread takes without waiting for the interval
RegWorkerRuns == RegWorkerLoop \/ RegWorkerWoken \/ RegFuncSnapshot

\* C37: after registration_service_update on a started service whose status
\* is not Off, a report with the values of the most recent update is
\* attempted, also when the update arrives while the worker is inside an
\* earlier report, unless the service is stopped first; the worker need not
\* wait for its interval. Once attempted, the report is the one of the
\* service's present status and counts.
C37_LatestUpdateReported ==
    /\ ~rl_latest ~> (rl_latest \/ reg_status = REGISTRATION_STATUS_OFF)
    /\ [][(~rl_latest /\ rl_latest')
            => rw_report' = <<reg_status', reg_slots_used', reg_slots_total'>>]_vars
    /\ [][(rl_latest /\ ~rl_latest' /\ rw_thread = "func")
            => rw_wstate' = WORKER_SIGNALED]_vars

\* C37 witness: the most recent update came while the worker was sending an
\* earlier report with other values; the worker ran again and its last
\* report carries the values of that update
C37_Witness ==
    /\ rl_updates = MaxUpdates
    /\ rl_busy
    /\ rl_latest
    /\ rw_state = "running"
    /\ rw_report = <<REGISTRATION_STATUS_BUSY, 2, 1>>
    /\ rw_report = <<reg_status, reg_slots_used, reg_slots_total>>
    /\ rw_wstate = WORKER_IDLE

\* C20: every report of the registration worker carries a status and counts
\* read in one snapshot: Busy goes with slots_used >= slots_total, Ready with
\* slots_used < slots_total, and nothing is reported while the status is Unknown.
C20_ReportsAreConsistent ==
    /\ [](rw_report # <<>> =>
            /\ rw_report[1] # REGISTRATION_STATUS_UNKNOWN
            /\ rw_report[1] = REGISTRATION_STATUS_BUSY => rw_report[2] >= rw_report[3]
            /\ rw_report[1] = REGISTRATION_STATUS_READY => rw_report[2] < rw_report[3])
    /\ [][(rw_pc = "idle" /\ rw_pc' = "snap")
             => rw_snap' = <<reg_status, reg_slots_used, reg_slots_total>>]_vars
    /\ [][(rw_pc = "snap" /\ rw_pc' = "idle")
             => IF rw_snap[1] = REGISTRATION_STATUS_UNKNOWN
                THEN rw_report' = rw_report ELSE rw_report' = rw_snap]_vars

\* C20 witness: a Ready report is out while the service has since become
\* Busy with other counts, and the worker holds a fresh snapshot of those
C20_Witness ==
    /\ rw_report # <<>>
    /\ rw_report[1] = REGISTRATION_STATUS_READY
    /\ reg_status = REGISTRATION_STATUS_BUSY
    /\ rw_pc = "snap"
    /\ rw_snap = <<reg_status, reg_slots_used, reg_slots_total>>
    /\ rw_snap[2] # rw_report[2]

\* C21: registration_service_stop of a started service returns only after a
\* report with status Off was sent, also when it was called while the worker
\* was sending an earlier report, and it does return; once it has returned no
\* report is sent until the next start, and registration_service_update
\* leaves the status Off as it is.
C21_StopSendsFinalOff ==
    /\ [][(rw_state = "stopping" /\ rw_state' = "stopped")
             => (rw_off_sent /\ rw_report # <<>> /\ rw_report[1] = REGISTRATION_STATUS_OFF)]_vars
    /\ [](rw_state = "stopped" => (rw_thread = "none" /\ rw_pc = "idle"))
    /\ [][(rw_state = "stopped" /\ rw_state' = "stopped") => rw_report' = rw_report]_vars
    /\ [][(reg_status = REGISTRATION_STATUS_OFF /\ reg_status' # REGISTRATION_STATUS_OFF)
             => (rw_state = "stopped" /\ rw_state' = "running")]_vars
    /\ (rw_state = "stop_join" ~> rw_state = "stopped")

\* C21 witness: registration_service_stop has returned, it was called while a
\* report of another status was on its way, and the Off report followed it
C21_Witness ==
    /\ rw_state = "stopped"
    /\ rw_mid
    /\ rw_off_sent
    /\ rw_report # <<>>
    /\ rw_report[1] = REGISTRATION_STATUS_OFF
    /\ reg_status = REGISTRATION_STATUS_OFF

\* C28: whenever a worker stands at slot acquisition the idle slot list is
\* not empty and the acquisition succeeds: neither "Idle slot pool is empty"
\* nor "Failed to acquire slot" is reached.
C28_AcquisitionSucceeds ==
    /\ [](\A w \in Workers :
            wpc[w] = "acquire" =>
                /\ idle_clients_head # NULL
                /\ AcquireRet(pw_callsign[w]) = 0)
    /\ [][\A w \in Workers :
            (wpc[w] = "acquire" /\ wpc'[w] # "acquire") => wpc'[w] = "serve"]_vars

\* C28 witness: a worker has acquired the last idle slot while the other
\* worker serves its client on the other slot
C28_Witness ==
    \E w1, w2 \in Workers :
        /\ w1 # w2
        /\ wpc[w1] = "serve" /\ wpc[w2] = "serve"
        /\ pw_pc[w1] # pw_pc[w2]
        /\ idle_clients_head = NULL

\* between proxy_start and proxy_close
BeforeClose == mainPc \notin (ClosingPcs \cup {"closed"})

\* how often worker w is on the idle worker list
TimesListed(w) == Cardinality({i \in 1..Len(IdleWorkers) : IdleWorkers[i] = w})

\* the connections handed to worker w and not yet freed
HandedTo(w) == {c \in Conns : conn_worker[c] = w /\ conn_state[c] # "freed"}

ListedWithoutConn(w) == TimesListed(w) = 1 /\ pw_conn[w] = NULL /\ HandedTo(w) = {}

UnlistedWithConn(w) == TimesListed(w) = 0 /\ pw_conn[w] # NULL /\ HandedTo(w) = {pw_conn[w]}

\* off the list with no connection: popped by proxy_process, which holds the
\* accepted connection and is about to hand it over ...
PoppedForHandOff(w) ==
    /\ TimesListed(w) = 0 /\ pw_conn[w] = NULL /\ HandedTo(w) = {}
    /\ mainPc = "handoff" /\ mainWorker = w /\ mainConn # NULL

\* ... or past the free of its connection and about to push itself
AboutToPush(w) ==
    /\ TimesListed(w) = 0 /\ pw_conn[w] = NULL /\ HandedTo(w) = {}
    /\ wpc[w] \in {"fail_push", "exit_push"}

\* C29 as stated: before proxy_close every worker is on the idle list once
\* and holds no connection, or is off the list and holds one connection.
C29_ListedOrHolding ==
    BeforeClose => \A w \in Workers : ListedWithoutConn(w) \/ UnlistedWithConn(w)

\* C29: before proxy_close every worker is on the idle list once and holds
\* no connection, or is off the list and holds one connection, or is off
\* the list without one for the moment between the pop and the hand-off or
\* between the free and the push. A worker leaves the list only by the pop
\* of proxy_process, which then hands it the accepted connection.
C29_ListedHoldingOrInTransit ==
    /\ [](BeforeClose =>
            \A w \in Workers :
                \/ ListedWithoutConn(w) \/ UnlistedWithConn(w)
                \/ PoppedForHandOff(w) \/ AboutToPush(w))
    /\ [][\A w \in Workers :
            (BeforeClose /\ TimesListed(w) = 1 /\ TimesListed(w)' = 0)
                => PoppedForHandOff(w)']_vars
    /\ [][\A w \in Workers :
            (BeforeClose /\ PoppedForHandOff(w) /\ ~PoppedForHandOff(w)')
                => (UnlistedWithConn(w)' /\ pw_conn'[w] = mainConn
                        /\ wstate'[w] = WORKER_SIGNALED)]_vars

\* C29 witness: one worker is popped and not yet handed the connection
\* while the other has freed its connection and not yet pushed itself
C29_Witness ==
    /\ BeforeClose
    /\ \E w1, w2 \in Workers :
        /\ PoppedForHandOff(w1)
        /\ AboutToPush(w2)
        /\ wpc[w2] = "exit_push"

\* C36 as stated: each time a client worker is returned to the idle worker
\* list, after service, after a failed acquisition and after a failed
\* authorization, a registration update follows: the worker's next step
\* is its call of proxy_update_registration.
C36_UpdateAfterEveryReturn ==
    [][\A w \in Workers :
        (TimesListed(w) = 0 /\ TimesListed(w)' = 1) => wpc'[w] = "x_upd"]_vars

\* it is so on the common exit, after service or a failed acquisition
UpdateAfterExitPush ==
    [][\A w \in Workers :
        (TimesListed(w) = 0 /\ TimesListed(w)' = 1 /\ wpc[w] # "fail_push")
            => (wpc[w] = "exit_push" /\ wpc'[w] = "x_upd")]_vars

\* ------------------------------------------------------------------------
\* The idle slot list on its own: proxy_open links PoolSize slots, workers
\* unlink the slot they serve and append it when the client is gone
\* (checked under SpecPool)
\* ------------------------------------------------------------------------
\* slots of the pool: enough for an unlink between two listed slots
PoolSize == 4

PoolSlots == 1..PoolSize

InitPoolIdle ==
    /\ pool_head = NULL
    /\ pool_next = [s \in PoolSlots |-> NULL]
    /\ pool_prev_ptr = [s \in PoolSlots |-> 0]
    /\ pool_tail_ptr = 0
    /\ pool_held = {}
    /\ pool_idle = <<>>

\* proxy_open: clients[0] hangs on the head pointer, clients[i] on the next
\* field of clients[i - 1], the tail pointer is the last slot's next field
InitPool ==
    /\ pool_head = 1
    /\ pool_next = [s \in PoolSlots |-> IF s < PoolSize THEN s + 1 ELSE NULL]
    /\ pool_prev_ptr = [s \in PoolSlots |-> s - 1]
    /\ pool_tail_ptr = PoolSize
    /\ pool_held = {}
    \* all idle since proxy_open; the array order stands for the tie
    /\ pool_idle = [i \in 1..PoolSize |-> i]

\* the slots on the list, head first
PoolList == WalkSlots(pool_head, pool_next, PoolSize + 1)

\* a worker takes a listed slot: the one bound to its callsign, which can be
\* at any position, or the head
PoolAcquire ==
    \E s \in SeqSet(PoolList) :
        LET u == UnlinkFrom(pool_head, pool_next, pool_prev_ptr, pool_tail_ptr, s)
        IN /\ pool_head' = u[1]
           /\ pool_next' = u[2]
           /\ pool_prev_ptr' = u[3]
           /\ pool_tail_ptr' = u[4]
           /\ pool_held' = pool_held \cup {s}
           /\ pool_idle' = Without(pool_idle, s)

\* a worker puts the slot it served back
PoolRelease ==
    \E s \in pool_held :
        LET u == AppendTo(pool_head, pool_next, pool_prev_ptr, pool_tail_ptr, s)
        IN /\ pool_head' = u[1]
           /\ pool_next' = u[2]
           /\ pool_prev_ptr' = u[3]
           /\ pool_tail_ptr' = u[4]
           /\ pool_held' = pool_held \ {s}
           /\ pool_idle' = Append(pool_idle, s)

\* a list of n slots is well-formed: the walk ends (no cycle), no slot is on
\* it twice, each listed slot's prev_ptr is the pointer that points to it,
\* and the tail pointer is the last slot's next field or the head pointer
WellFormedList(head, next, prev_ptr, tail_ptr, n) ==
    LET l == WalkSlots(head, next, n + 1)
    IN /\ Len(l) <= n
       /\ \A i, j \in 1..Len(l) : l[i] = l[j] => i = j
       /\ \A i \in 1..Len(l) :
            /\ prev_ptr[l[i]] = (IF i = 1 THEN 0 ELSE l[i - 1])
            /\ (IF i = 1 THEN head ELSE next[l[i - 1]]) = l[i]
       /\ tail_ptr = (IF l = <<>> THEN 0 ELSE l[Len(l)])
       /\ l # <<>> => next[l[Len(l)]] = NULL

\* the list of the proxy itself, from proxy_open to the reset in proxy_close
IdleSlotListWellFormed ==
    mainPc # "closed" =>
        WellFormedList(idle_clients_head, pc_next, pc_prev_ptr, idle_clients_tail_ptr,
                       NumClients)

\* C30: after any acquisitions and releases the idle slot list is acyclic
\* and holds no slot twice, each listed slot's prev_ptr addresses the
\* pointer that points to it, and the tail pointer addresses the next field
\* of the last slot or the head pointer of an empty list. The list holds
\* the slots that are not in service.
C30_IdleSlotListWellFormed ==
    /\ WellFormedList(pool_head, pool_next, pool_prev_ptr, pool_tail_ptr, PoolSize)
    /\ SeqSet(PoolList) = PoolSlots \ pool_held

\* C30 witness: slots 4, 1 and 2 were unlinked and appended in that order,
\* slot 3 was unlinked from behind slot 1 and is in service
C30_Witness ==
    /\ PoolList = <<4, 1, 2>>
    /\ pool_held = {3}
    /\ pool_prev_ptr[3] = 1
    /\ pool_tail_ptr = 2

\* the list was emptied by the unlink of its only slot
C30_WitnessEmptied ==
    /\ PoolList = <<>>
    /\ pool_held = PoolSlots
    /\ pool_tail_ptr = 0

\* C31: the idle slot list is ordered oldest-idle first: the listed slots
\* stand in the order in which they became idle, a release appends the slot
\* at the tail, an unlink at any position keeps the order of the others,
\* and so the head is the slot that has been idle longest.
C31_OldestIdleFirst ==
    /\ [](PoolList = pool_idle)
    /\ [][\A s \in PoolSlots :
            (s \in pool_held /\ s \notin pool_held') => PoolList' = Append(PoolList, s)]_vars
    /\ [][\A s \in PoolSlots :
            (s \notin pool_held /\ s \in pool_held') => PoolList' = Without(PoolList, s)]_vars
    /\ [](pool_idle # <<>> => pool_head = pool_idle[1])

\* C31 witness: slot 3 was taken from between slots 2 and 4 and slot 1 from
\* the head, slot 1 came back, then slot 3: the head is slot 2, idle since
\* proxy_open, and the slots released stand behind it in the order of release
C31_Witness ==
    /\ PoolList = <<2, 4, 1, 3>>
    /\ pool_idle = <<2, 4, 1, 3>>
    /\ pool_head = 2

\* ------------------------------------------------------------------------
\* One slot over several clients (proxy_conn.c): a client is bound, served
\* by the handler and the three forwarders, and the slot is finished before
\* the next client is bound (checked under SpecFinish)
\* ------------------------------------------------------------------------
\* clients bound to the slot one after the other
MaxSessions == 2

\* results of conn_send on the client connection: sent; -ECONNRESET, -EINTR,
\* -ENOTCONN or -EPIPE; any other error
SendResults == {"ok", "lost", "error"}

InitFinishIdle ==
    /\ fn_client = NULL
    /\ fn_pc = "none"
    /\ fn_conn = [t \in Forwarders |-> "closed"]
    /\ fn_thr = [t \in Forwarders |-> "none"]
    /\ fn_held = [t \in Forwarders |-> 0]
    /\ fn_sent = {}
    /\ fn_sessions = 0
    /\ fn_drops = {}

\* proxy_conn_init: no client, the sockets closed, no forwarder started
InitFinish ==
    /\ fn_client = NULL
    /\ fn_pc = "idle"
    /\ fn_conn = [t \in Forwarders |-> "closed"]
    /\ fn_thr = [t \in Forwarders |-> "none"]
    /\ fn_held = [t \in Forwarders |-> 0]
    /\ fn_sent = {}
    /\ fn_sessions = 0
    /\ fn_drops = {}

\* the next client is bound (proxy_conn_accept) and admitted: conn_listen on
\* the two UDP ports, thread_start of the two UDP forwarders
FinishBind ==
    /\ fn_pc = "idle"
    /\ fn_client = NULL
    /\ fn_sessions < MaxSessions
    /\ fn_sessions' = fn_sessions + 1
    /\ fn_client' = fn_sessions + 1
    /\ fn_conn' = [fn_conn EXCEPT !["data"] = "open", !["control"] = "open"]
    /\ fn_thr' = [fn_thr EXCEPT !["data"] = "recv", !["control"] = "recv"]
    /\ fn_pc' = "serve"
    /\ UNCHANGED <<fn_held, fn_sent, fn_drops>>

\* process_tcp_open_message: conn_connect succeeds ...
FinishTcpConnect ==
    /\ fn_pc = "serve"
    /\ fn_conn' = [fn_conn EXCEPT !["tcp"] = "open"]
    /\ fn_pc' = "open_start"
    /\ UNCHANGED <<fn_client, fn_thr, fn_held, fn_sent, fn_sessions, fn_drops>>

\* ... thread_start(&priv->thread_tcp) joins the previous thread and starts anew
FinishThreadStart ==
    /\ fn_pc = "open_start"
    /\ fn_thr["tcp"] \in {"none", "done"}
    /\ fn_thr' = [fn_thr EXCEPT !["tcp"] = "recv"]
    /\ fn_pc' = "serve"
    /\ UNCHANGED <<fn_client, fn_conn, fn_held, fn_sent, fn_sessions, fn_drops>>

\* process_tcp_close_message, or a failed conn_send in process_tcp_data_message
FinishTcpClose ==
    /\ fn_pc = "serve"
    /\ fn_conn["tcp"] = "open"
    /\ fn_conn' = [fn_conn EXCEPT !["tcp"] = "closed"]
    /\ UNCHANGED <<fn_client, fn_pc, fn_thr, fn_held, fn_sent, fn_sessions, fn_drops>>

\* the loop of the handler ends: conn_recv fails or process_message fails
FinishServeEnd ==
    /\ fn_pc = "serve"
    /\ fn_pc' = "close"
    /\ UNCHANGED <<fn_client, fn_conn, fn_thr, fn_held, fn_sent, fn_sessions, fn_drops>>

\* conn_close of conn_control, conn_data and conn_tcp
FinishClose ==
    /\ fn_pc = "close"
    /\ fn_conn' = [t \in Forwarders |-> "closed"]
    /\ fn_pc' = "join_data"
    /\ UNCHANGED <<fn_client, fn_thr, fn_held, fn_sent, fn_sessions, fn_drops>>

\* the joins in the order of the code
JoinPc(t) == IF t = "data" THEN "join_data" ELSE IF t = "control" THEN "join_control"
             ELSE "join_tcp"
AfterJoin(t) == IF t = "data" THEN "join_control" ELSE IF t = "control" THEN "join_tcp"
                ELSE "clear"

\* a variant of the join that does not wait for the thread to return
FinishJoin_nowait(t) ==
    /\ fn_pc = JoinPc(t)
    /\ fn_pc' = AfterJoin(t)
    /\ UNCHANGED <<fn_client, fn_conn, fn_thr, fn_held, fn_sent, fn_sessions, fn_drops>>

\* thread_join(&priv->thread_t): returns when the thread has returned
FinishJoin(t) ==
    /\ fn_pc = JoinPc(t)
    /\ fn_thr[t] \in {"none", "done"}
    /\ fn_thr' = [fn_thr EXCEPT ![t] = "none"]
    /\ fn_pc' = AfterJoin(t)
    /\ UNCHANGED <<fn_client, fn_conn, fn_held, fn_sent, fn_sessions, fn_drops>>

\* under mutex_client: conn_free, priv->conn_client = NULL; finish returns
FinishClear ==
    /\ fn_pc = "clear"
    /\ fn_client' = NULL
    /\ fn_pc' = "idle"
    /\ UNCHANGED <<fn_conn, fn_thr, fn_held, fn_sent, fn_sessions, fn_drops>>

\* conn_recv_any of forwarder t returns data: the frame of the client bound now
FinishFwdRecv(t) ==
    /\ fn_thr[t] = "recv"
    /\ fn_conn[t] = "open"
    /\ fn_held' = [fn_held EXCEPT ![t] = fn_client]
    /\ fn_thr' = [fn_thr EXCEPT ![t] = "send"]
    /\ UNCHANGED <<fn_client, fn_pc, fn_conn, fn_sent, fn_sessions, fn_drops>>

\* conn_send(priv->conn_client, ...) of the frame: it goes to the client bound
\* at this moment; on an error the forwarder closes its socket, calls
\* proxy_conn_drop unless the client is simply gone, and returns
FinishFwdSend(t) ==
    /\ fn_thr[t] = "send"
    /\ \E res \in SendResults :
        /\ fn_sent' = IF res = "ok" THEN fn_sent \cup {<<fn_held[t], fn_client>>} ELSE fn_sent
        /\ fn_thr' = [fn_thr EXCEPT ![t] = IF res = "ok" THEN "recv" ELSE "done"]
        /\ fn_conn' = IF res = "ok" THEN fn_conn ELSE [fn_conn EXCEPT ![t] = "closed"]
        /\ fn_drops' = IF res = "error" THEN fn_drops \cup {t} ELSE fn_drops
    /\ UNCHANGED <<fn_client, fn_pc, fn_held, fn_sessions>>

\* conn_recv_any fails or reports the end of the stream (benign: the socket
\* was closed or the remote host went away): a UDP forwarder drops the client
\* on any other error; the socket is closed; forwarder_tcp goes on to send_tcp_close
FinishFwdEnd(t) ==
    /\ fn_thr[t] = "recv"
    /\ \E benign \in BOOLEAN :
        /\ fn_conn[t] = "open" \/ benign
        /\ fn_drops' = IF ~benign /\ t # "tcp" THEN fn_drops \cup {t} ELSE fn_drops
    /\ fn_conn' = [fn_conn EXCEPT ![t] = "closed"]
    /\ fn_held' = [fn_held EXCEPT ![t] = IF t = "tcp" THEN fn_client ELSE @]
    /\ fn_thr' = [fn_thr EXCEPT ![t] = IF t = "tcp" THEN "close_send" ELSE "done"]
    /\ UNCHANGED <<fn_client, fn_pc, fn_sent, fn_sessions>>

\* send_tcp_close in forwarder_tcp: the result is ignored, the thread returns
FinishFwdTcpClose ==
    /\ fn_thr["tcp"] = "close_send"
    /\ \E res \in SendResults :
        fn_sent' = IF res = "ok" THEN fn_sent \cup {<<fn_held["tcp"], fn_client>>} ELSE fn_sent
    /\ fn_thr' = [fn_thr EXCEPT !["tcp"] = "done"]
    /\ UNCHANGED <<fn_client, fn_pc, fn_conn, fn_held, fn_sessions, fn_drops>>

\* the slot as finish leaves it
SlotAtRest ==
    /\ fn_client = NULL
    /\ \A t \in Forwarders : fn_conn[t] = "closed" /\ fn_thr[t] = "none"

\* C32: when the finish step of a slot returns, the client binding is
\* cleared, the three outbound sockets are closed and none of the three
\* forwarders is running; every frame a forwarder sends goes to the client
\* that was bound when the frame was produced, never to a later one.
C32_FinishLeavesSlotAtRest ==
    /\ [][(fn_pc = "clear" /\ fn_pc' = "idle") => SlotAtRest']_vars
    /\ [](fn_pc = "idle" => SlotAtRest)
    /\ [](\A f \in fn_sent : f[1] = f[2] /\ f[2] # NULL)
    /\ [](\A t \in Forwarders : fn_thr[t] \in {"send", "close_send"} => fn_client = fn_held[t])

\* C32 witness: the slot is finished for the second time, all three
\* forwarders ran in the second session, and both clients were sent frames
C32_Witness ==
    /\ fn_pc = "idle"
    /\ fn_sessions = 2
    /\ SlotAtRest
    /\ fn_sent = {<<1, 1>>, <<2, 2>>}

\* C35 as stated: the TCP forwarder never drops the slot's client: in no
\* execution does it call the client-drop operation.
C35_TcpForwarderNeverDrops == "tcp" \notin fn_drops

\* it does not on the end of the stream or an error of the outbound connection
TcpForwarderDropsOnlyAfterSend ==
    [][("tcp" \notin fn_drops /\ "tcp" \in fn_drops') => fn_thr["tcp"] = "send"]_vars

\* ------------------------------------------------------------------------
\* Hand-off to a worker that has not yet returned (checked under SpecHandOff)
\* ------------------------------------------------------------------------
\* worker w has pushed itself back on the idle list and is still inside
\* proxy_worker_func (Busy, or Signaled by the hand-off), and proxy_process
\* has popped it and handed it a connection
HandedWhileBusy(w) == wpc[w] = "x_upd" /\ pw_conn[w] # NULL

\* worker w has entered proxy_worker_func again and found its connection
RunsAgain(w) == wpc[w] = "auth_send" /\ pw_conn[w] # NULL

\* the exchange with the client of w's connection is over: the client is
\* authorized, or the connection is freed
AuthorizedOrFreed(w) ==
    \/ wpc[w] = "a_upd" /\ pw_conn[w] # NULL /\ conn_auth[pw_conn[w]] = "ok"
    \/ wpc[w] = "fail_push" /\ pw_conn[w] = NULL

CONN_BUFF_LEN == 2

\* the largest frame, more than two buffers long
MaxFrame == 5

EPIPE == 32

\* bytes n+1 .. m of the client's stream, each byte named by its position
Bytes(n, m) == [i \in 1..(m - n) |-> n + i]

InitTcpDataIdle ==
    /\ td_pc = "idle"
    /\ td_size = 0
    /\ td_left = 0
    /\ td_buf = <<>>
    /\ td_stream = <<>>
    /\ td_payload = <<>>
    /\ td_rest = <<>>
    /\ td_out = <<>>
    /\ td_tcp_ret = 0
    /\ td_short = FALSE
    /\ td_conn_tcp = "closed"
    /\ td_closes = 0
    /\ td_ret = 0

\* process_message has read the header of a TCP_DATA frame of any size; the
\* payload and the first byte of the next frame are on their way
InitTcpData ==
    /\ td_pc = "loop"
    /\ td_size \in 0..MaxFrame
    /\ td_left = 0
    /\ td_buf = <<>>
    /\ td_stream = Bytes(0, td_size + 1)
    /\ td_payload = Bytes(0, td_size)
    /\ td_rest = Bytes(td_size, td_size + 1)
    /\ td_out = <<>>
    /\ td_tcp_ret = 0
    /\ td_short = FALSE
    /\ td_conn_tcp = "open"
    /\ td_closes = 0
    /\ td_ret = 0

\* a variant that returns as soon as a write to the remote host has failed
TcpDataLoop_nodrain ==
    /\ td_pc = "loop"
    /\ IF td_size > 0 /\ td_tcp_ret = 0
       THEN /\ td_left' = IF td_size > CONN_BUFF_LEN THEN CONN_BUFF_LEN ELSE td_size
            /\ td_buf' = <<>>
            /\ td_pc' = "recv"
            /\ UNCHANGED <<td_closes, td_ret>>
       ELSE /\ td_pc' = "done"
            /\ td_closes' = IF td_tcp_ret # 0 THEN td_closes + 1 ELSE td_closes
            /\ td_ret' = 0
            /\ UNCHANGED <<td_left, td_buf>>
    /\ UNCHANGED <<td_size, td_stream, td_payload, td_rest, td_out, td_tcp_ret, td_short,
                   td_conn_tcp>>

\* process_tcp_data_message: the while test, curr_msg_size and the call of
\* conn_recv; after the loop, send_tcp_close if tcp_ret is not 0, and return 0
TcpDataLoop ==
    /\ td_pc = "loop"
    /\ IF td_size > 0
       THEN /\ td_left' = IF td_size > CONN_BUFF_LEN THEN CONN_BUFF_LEN ELSE td_size
            /\ td_buf' = <<>>
            /\ td_pc' = "recv"
            /\ UNCHANGED <<td_closes, td_ret>>
       ELSE /\ td_pc' = "done"
            /\ td_closes' = IF td_tcp_ret # 0 THEN td_closes + 1 ELSE td_closes
            /\ td_ret' = 0
            /\ UNCHANGED <<td_left, td_buf>>
    /\ UNCHANGED <<td_size, td_stream, td_payload, td_rest, td_out, td_tcp_ret, td_short,
                   td_conn_tcp>>

\* conn_recv: one recvfrom, which fails (0 and SOCKET_ERROR) or stores ret
\* bytes at buff; buff_len -= ret, buff += ret. When buff_len is 0 conn_recv
\* returns bytes_read, the caller subtracts it from msg_size and calls
\* conn_send if tcp_ret is 0. A failed conn_recv is returned to the caller
TcpDataRecvfrom ==
    /\ td_pc = "recv"
    /\ \E ret \in -1..td_left :
        IF ret <= 0
        THEN /\ td_pc' = "failed"
             /\ td_ret' = -EPIPE
             /\ UNCHANGED <<td_size, td_left, td_buf, td_stream>>
        ELSE /\ ret <= Len(td_stream)
             /\ td_buf' = td_buf \o SubSeq(td_stream, 1, ret)
             /\ td_stream' = SubSeq(td_stream, ret + 1, Len(td_stream))
             /\ td_ret' = td_ret
             /\ IF td_left - ret > 0
                THEN /\ td_left' = td_left - ret
                     /\ UNCHANGED <<td_size, td_pc>>
                ELSE /\ td_size' = td_size - (Len(td_buf) + ret)
                     /\ td_left' = IF td_tcp_ret = 0 THEN Len(td_buf) + ret ELSE 0
                     /\ td_pc' = IF td_tcp_ret = 0 THEN "send" ELSE "loop"
    /\ UNCHANGED <<td_payload, td_rest, td_out, td_tcp_ret, td_short, td_conn_tcp, td_closes>>

\* what one send of conn_send puts on the wire: the first ret bytes at buff
conn_send_bytes(buf, buff_len, ret) == SubSeq(buf, 1, ret)

\* conn_send: one send, which fails (0 and SOCKET_ERROR) or takes ret bytes
\* from buff; buff_len -= ret. When buff_len is 0 conn_send returns 0. On a
\* failure tcp_ret is negative and the outbound connection is closed
TcpDataSend ==
    /\ td_pc = "send"
    /\ \E ret \in -1..td_left :
        IF ret <= 0
        THEN /\ td_tcp_ret' = -EPIPE
             /\ td_conn_tcp' = "closed"
             /\ td_left' = 0
             /\ td_pc' = "loop"
             /\ UNCHANGED <<td_out, td_short>>
        ELSE /\ td_out' = td_out \o conn_send_bytes(td_buf, td_left, ret)
             /\ td_left' = td_left - ret
             /\ td_short' = (td_short \/ ret < td_left)
             /\ td_pc' = IF td_left - ret > 0 THEN "send" ELSE "loop"
             /\ UNCHANGED <<td_tcp_ret, td_conn_tcp>>
    /\ UNCHANGED <<td_size, td_buf, td_stream, td_payload, td_rest, td_closes, td_ret>>

\* C22: when process_tcp_data_message has returned with every write to the
\* outbound connection successful, the remote host has received exactly the
\* frame's payload, in order, and exactly size bytes were taken from the
\* client's stream.
C22_TcpDataDeliveredExactly ==
    (td_pc = "done" /\ td_tcp_ret = 0) => (td_out = td_payload /\ td_stream = td_rest)

\* the same holds of the frames every send of which took all it was given
TcpDataWholeSends ==
    (td_pc = "done" /\ td_tcp_ret = 0 /\ ~td_short)
        => (td_out = td_payload /\ td_stream = td_rest)

\* and the handler takes exactly size bytes from the client whenever it returns 0
TcpDataConsumesSize ==
    td_pc = "done" => (td_stream = td_rest /\ td_size = 0)

\* C33: when a write to the remote host fails at any chunk of a TCP_DATA
\* frame and the client's bytes keep arriving, the handler takes exactly
\* size bytes from the client, writes nothing more to the remote host for
\* that frame, closes the outbound connection, calls send_tcp_close once
\* and returns 0.
C33_WriteFailureDrainsFrame ==
    /\ []((td_pc = "done" /\ td_tcp_ret # 0) =>
            /\ td_stream = td_rest
            /\ td_size = 0
            /\ td_conn_tcp = "closed"
            /\ td_closes = 1
            /\ td_ret = 0)
    /\ [][td_tcp_ret # 0 => td_out' = td_out]_vars
    /\ [][(td_tcp_ret = 0 /\ td_tcp_ret' # 0) => (td_conn_tcp' = "closed" /\ td_out' = td_out)]_vars
    /\ [](td_closes <= 1 /\ (td_closes = 1 => td_pc = "done"))

\* C33 witness: a frame of three buffers, the write of the second failed
\* after the first had gone out, the third was read and not written
C33_Witness ==
    /\ td_pc = "done"
    /\ td_tcp_ret # 0
    /\ Len(td_payload) = MaxFrame
    /\ td_out = Bytes(0, CONN_BUFF_LEN)
    /\ td_stream = td_rest
    /\ td_closes = 1
    /\ td_ret = 0

\* ------------------------------------------------------------------------
\* Closing a connection under a blocked receive (conn.c, mutex_posix.c)
\* ------------------------------------------------------------------------
\* cl_fd: priv->fd, "open" or "invalid"; cl_shut: shutdown was called on the socket
\* cl_readers, cl_lock: priv->mutex (readers; the thread holding the pthread lock, 0 if none)
\* cl_queue: bytes received by the socket and not yet read; cl_sent: bytes the peer has sent
\* cl_rpc[r]: a receiving thread: "idle", "recvfrom" (holds the shared lock, in or
\*   about to enter recvfrom), "unlock" (before mutex_unlock_shared), "returned"
\* cl_kind[r]: "conn_recv" or "conn_recv_any"; cl_left[r]: buff_len; cl_ret[r]: ret
\* cl_hit[r]: the thread was blocked in recvfrom when conn_close shut the socket down
\* cl_cpc: the closing thread: "idle", "shutdown", "sh_unlock", "lock", "close", "returned"

Receivers == 1..2
Closer == 3

\* the bytes the peer sends at most
MaxData == 2

ENOTCONN == 107

InitCloseIdle ==
    /\ cl_fd = "invalid"
    /\ cl_shut = FALSE
    /\ cl_readers = 0
    /\ cl_lock = 0
    /\ cl_queue = 0
    /\ cl_sent = 0
    /\ cl_rpc = [r \in Receivers |-> "idle"]
    /\ cl_kind = [r \in Receivers |-> "conn_recv"]
    /\ cl_left = [r \in Receivers |-> 0]
    /\ cl_ret = [r \in Receivers |-> 0]
    /\ cl_hit = [r \in Receivers |-> FALSE]
    /\ cl_cpc = "idle"

\* after conn_init and conn_listen or conn_connect: an open socket
InitClose ==
    /\ cl_fd = "open"
    /\ cl_shut = FALSE
    /\ cl_readers = 0
    /\ cl_lock = 0
    /\ cl_queue = 0
    /\ cl_sent = 0
    /\ cl_rpc = [r \in Receivers |-> "idle"]
    /\ cl_kind = [r \in Receivers |-> "conn_recv"]
    /\ cl_left = [r \in Receivers |-> 0]
    /\ cl_ret = [r \in Receivers |-> 0]
    /\ cl_hit = [r \in Receivers |-> FALSE]
    /\ cl_cpc = "idle"

\* a thread inside recvfrom with nothing to return
RecvBlocked(r) == cl_rpc[r] = "recvfrom" /\ cl_queue = 0 /\ ~cl_shut

\* the peer sends a byte
PeerSends ==
    /\ cl_sent < MaxData
    /\ ~cl_shut
    /\ cl_sent' = cl_sent + 1
    /\ cl_queue' = cl_queue + 1
    /\ UNCHANGED <<cl_fd, cl_shut, cl_readers, cl_lock, cl_rpc, cl_kind, cl_left, cl_ret,
                   cl_hit, cl_cpc>>

\* conn_recv and conn_recv_any up to recvfrom: mutex_lock_shared, the test of priv->fd
RecvCall(r) ==
    /\ cl_rpc[r] = "idle"
    /\ cl_lock = 0
    /\ cl_readers' = cl_readers + 1
    /\ \E kind \in {"conn_recv", "conn_recv_any"}, buff_len \in 1..2 :
        /\ cl_kind' = [cl_kind EXCEPT ![r] = kind]
        /\ cl_left' = [cl_left EXCEPT ![r] = buff_len]
    /\ IF cl_fd = "invalid"
       THEN /\ cl_ret' = [cl_ret EXCEPT ![r] = -ENOTCONN]
            /\ cl_rpc' = [cl_rpc EXCEPT ![r] = "unlock"]
       ELSE /\ cl_ret' = [cl_ret EXCEPT ![r] = 0]
            /\ cl_rpc' = [cl_rpc EXCEPT ![r] = "recvfrom"]
    /\ UNCHANGED <<cl_fd, cl_shut, cl_lock, cl_queue, cl_sent, cl_hit, cl_cpc>>

\* recvfrom returns: bytes if there are any, else 0 on a socket shut down;
\* conn_recv_any returns the count or -EPIPE, conn_recv goes on until
\* buff_len is 0 and returns bytes_read, or -EPIPE
RecvFrom(r) ==
    /\ cl_rpc[r] = "recvfrom"
    /\ IF cl_queue > 0
       THEN \E ret \in 1..cl_queue :
            /\ ret <= cl_left[r]
            /\ cl_queue' = cl_queue - ret
            /\ cl_left' = [cl_left EXCEPT ![r] = @ - ret]
            /\ cl_ret' = [cl_ret EXCEPT ![r] = @ + ret]
            /\ cl_rpc' = [cl_rpc EXCEPT ![r] =
                            IF cl_kind[r] = "conn_recv" /\ cl_left[r] - ret > 0
                            THEN "recvfrom" ELSE "unlock"]
       ELSE /\ cl_shut
            /\ cl_ret' = [cl_ret EXCEPT ![r] = -EPIPE]
            /\ cl_rpc' = [cl_rpc EXCEPT ![r] = "unlock"]
            /\ UNCHANGED <<cl_queue, cl_left>>
    /\ UNCHANGED <<cl_fd, cl_shut, cl_readers, cl_lock, cl_sent, cl_kind, cl_hit, cl_cpc>>

\* mutex_unlock_shared and the return
RecvUnlock(r) ==
    /\ cl_rpc[r] = "unlock"
    /\ cl_lock = 0
    /\ cl_readers' = cl_readers - 1
    /\ cl_rpc' = [cl_rpc EXCEPT ![r] = "returned"]
    /\ UNCHANGED <<cl_fd, cl_shut, cl_lock, cl_queue, cl_sent, cl_kind, cl_left, cl_ret,
                   cl_hit, cl_cpc>>

\* a variant of conn_close that does not call conn_shutdown first
ConnCloseCall_noshutdown ==
    /\ cl_cpc = "idle"
    /\ cl_cpc' = "lock"
    /\ UNCHANGED <<cl_fd, cl_shut, cl_readers, cl_lock, cl_queue, cl_sent, cl_rpc, cl_kind,
                   cl_left, cl_ret, cl_hit>>

\* conn_close calls conn_shutdown: mutex_lock_shared
ConnCloseCall ==
    /\ cl_cpc = "idle"
    /\ cl_lock = 0
    /\ cl_readers' = cl_readers + 1
    /\ cl_cpc' = "shutdown"
    /\ UNCHANGED <<cl_fd, cl_shut, cl_lock, cl_queue, cl_sent, cl_rpc, cl_kind, cl_left,
                   cl_ret, cl_hit>>

\* conn_shutdown: shutdown(conn_fd, SHUT_RDWR), shutdown(sock_fd, SHUT_RDWR)
ConnShutdown ==
    /\ cl_cpc = "shutdown"
    /\ cl_shut' = TRUE
    /\ cl_hit' = [r \in Receivers |-> RecvBlocked(r)]
    /\ cl_cpc' = "sh_unlock"
    /\ UNCHANGED <<cl_fd, cl_readers, cl_lock, cl_queue, cl_sent, cl_rpc, cl_kind, cl_left, cl_ret>>

\* conn_shutdown: mutex_unlock_shared
ConnShutdownUnlock ==
    /\ cl_cpc = "sh_unlock"
    /\ cl_lock = 0
    /\ cl_readers' = cl_readers - 1
    /\ cl_cpc' = "lock"
    /\ UNCHANGED <<cl_fd, cl_shut, cl_lock, cl_queue, cl_sent, cl_rpc, cl_kind, cl_left,
                   cl_ret, cl_hit>>

\* conn_close: mutex_lock returns once there are no readers
ConnCloseLock ==
    /\ cl_cpc = "lock"
    /\ cl_lock = 0
    /\ cl_readers = 0
    /\ cl_lock' = Closer
    /\ cl_cpc' = "close"
    /\ UNCHANGED <<cl_fd, cl_shut, cl_readers, cl_queue, cl_sent, cl_rpc, cl_kind, cl_left,
                   cl_ret, cl_hit>>

\* conn_close: priv->fd = INVALID_SOCKET, closesocket, mutex_unlock
ConnCloseFd ==
    /\ cl_cpc = "close"
    /\ cl_fd' = "invalid"
    /\ cl_lock' = 0
    /\ cl_cpc' = "returned"
    /\ UNCHANGED <<cl_shut, cl_readers, cl_queue, cl_sent, cl_rpc, cl_kind, cl_left, cl_ret, cl_hit>>

\* the steps of the threads inside conn_recv, conn_recv_any and conn_close
CloseThreadStep ==
    \/ \E r \in Receivers : RecvFrom(r) \/ RecvUnlock(r)
    \/ ConnShutdown \/ ConnShutdownUnlock \/ ConnCloseLock \/ ConnCloseFd

\* C23: a receive that is blocked in recvfrom when conn_close shuts the
\* socket down returns, and returns a negative error; conn_close returns.
C23_CloseUnblocksReceive ==
    /\ [](\A r \in Receivers : (cl_hit[r] /\ cl_rpc[r] \in {"unlock", "returned"}) => cl_ret[r] < 0)
    /\ \A r \in Receivers : (cl_hit[r] ~> cl_rpc[r] = "returned")
    /\ (cl_cpc # "idle" ~> cl_cpc = "returned")

\* C23 witness: conn_close has returned, and so have a conn_recv and a
\* conn_recv_any that were both blocked when it shut the socket down
C23_Witness ==
    /\ cl_cpc = "returned"
    /\ cl_fd = "invalid"
    /\ \E r1, r2 \in Receivers :
        /\ cl_kind[r1] = "conn_recv" /\ cl_kind[r2] = "conn_recv_any"
        /\ cl_hit[r1] /\ cl_hit[r2]
        /\ cl_rpc[r1] = "returned" /\ cl_rpc[r2] = "returned"
        /\ cl_ret[r1] = -EPIPE /\ cl_ret[r2] = -EPIPE

\* ------------------------------------------------------------------------
\* The password response (proxy.c)
\* ------------------------------------------------------------------------
\* pv_pc: "start", "responded" (the client has computed its response),
\*   "verified" (proxy_worker_authorize has compared it)
\* pv_nonce: the nonce; pv_password: the configured password;
\* pv_other: the password the client uses; pv_response: the client's response;
\* pv_ok: the comparison found the response equal to the expected one

\* the longest password
MaxPwLen == 2

\* 'A', 'a', 'b', '1'
PwChars == {65, 97, 98, 49}

PwStrings == UNION {[1..n -> PwChars] : n \in 1..MaxPwLen}

\* 0, the nonce of test_proxy_password_response, 2^31 - 1
PwNonces == {0, 1295740231, 2147483647}

\* a string with 'a'..'z' replaced by 'A'..'Z'
ToUpper(password) ==
    [i \in 1..Len(password) |->
        IF password[i] \in 97..122 THEN password[i] - 32 ELSE password[i]]

InitPwIdle ==
    /\ pv_pc = "idle"
    /\ pv_nonce = 0
    /\ pv_password = <<>>
    /\ pv_other = <<>>
    /\ pv_response = <<>>
    /\ pv_ok = FALSE

InitPw ==
    /\ pv_pc = "start"
    /\ pv_nonce \in PwNonces
    /\ pv_password \in PwStrings
    /\ pv_other \in PwStrings
    /\ pv_response = <<>>
    /\ pv_ok = FALSE

\* the client computes get_password_response(nonce, its password)
PwRespond ==
    /\ pv_pc = "start"
    /\ pv_response' = get_password_response(pv_nonce, pv_other)
    /\ pv_pc' = "responded"
    /\ UNCHANGED <<pv_nonce, pv_password, pv_other, pv_ok>>

\* proxy_worker_authorize: get_password_response(nonce, conf.password) and
\* the memcmp with the response received
PwVerify ==
    /\ pv_pc = "responded"
    /\ pv_ok' = (pv_response = get_password_response(pv_nonce, pv_password))
    /\ pv_pc' = "verified"
    /\ UNCHANGED <<pv_nonce, pv_password, pv_other, pv_response>>

\* C24 as stated: the response computed with a password verifies if and
\* only if that password is the configured one.
C24_VerifiesIffSamePassword ==
    pv_pc = "verified" => (pv_ok <=> pv_other = pv_password)

\* C24: the response computed with a password verifies if and only if that
\* password equals the configured one after ASCII lowercase letters are
\* raised to upper case in both; the configured password itself always verifies.
C24_VerifiesIffSameUpperCase ==
    pv_pc = "verified" =>
        /\ pv_ok <=> ToUpper(pv_other) = ToUpper(pv_password)
        /\ pv_other = pv_password => pv_ok

\* C24 witness: a password that differs from the configured one in the case
\* of a letter only has been verified and accepted
C24_Witness ==
    /\ pv_pc = "verified"
    /\ pv_ok
    /\ pv_other # pv_password
    /\ pv_password = <<97, 49>>
    /\ pv_other = <<65, 49>>

\* ------------------------------------------------------------------------
\* The callsign filter with any patterns (proxy.c, regex.c)
\* ------------------------------------------------------------------------
\* az_pc: "start", "done"; az_denied, az_allowed: priv->re_calls_denied and
\* priv->re_calls_allowed; az_callsign: the callsign; az_eng_denied,
\* az_eng_allowed: what the regex engine does when asked to match a pattern;
\* az_ret: what proxy_authorize_callsign returned

Patterns == {<<>>} \cup {<<s>> : s \in SUBSET Callsigns}

InitAuthIdle ==
    /\ az_pc = "idle"
    /\ az_denied = <<>>
    /\ az_allowed = <<>>
    /\ az_callsign = ""
    /\ az_eng_denied = "ok"
    /\ az_eng_allowed = "ok"
    /\ az_ret = 0

InitAuth ==
    /\ az_pc = "start"
    /\ az_denied \in Patterns
    /\ az_allowed \in Patterns
    /\ az_callsign \in Callsigns
    /\ az_eng_denied \in EngineOutcomes
    /\ az_eng_allowed \in EngineOutcomes
    /\ az_ret = 0

\* proxy_authorize_callsign(ph, callsign)
AuthorizeCallsign ==
    /\ az_pc = "start"
    /\ az_ret' = proxy_authorize_callsign_re(az_denied, az_allowed, az_callsign,
                                             az_eng_denied, az_eng_allowed)
    /\ az_pc' = "done"
    /\ UNCHANGED <<az_denied, az_allowed, az_callsign, az_eng_denied, az_eng_allowed>>

SampleBytes == {0, 10, 59, 71, 77, 109, 128, 255}

\* every value made of the sample bytes, and every value of one byte with
\* the others 0
U32Samples ==
    [1..4 -> SampleBytes]
        \cup {[i \in 1..4 |-> IF i = k THEN b ELSE 0] : k \in 1..4, b \in 0..255}

InitDigestIdle ==
    /\ dg_pc = "idle"
    /\ dg_value = <<0, 0, 0, 0>>
    /\ dg_hex = <<>>
    /\ dg_back = <<>>

InitDigest ==
    /\ dg_pc = "start"
    /\ dg_value \in U32Samples
    /\ dg_hex = <<>>
    /\ dg_back = <<>>

\* digest_to_hex32(value, result): digest_to_hex32_be of the bytes of htonl(value)
DigestToHex32 ==
    /\ dg_pc = "start"
    /\ dg_hex' = digest_to_hex32_be(dg_value)
    /\ dg_pc' = "hex"
    /\ UNCHANGED <<dg_value, dg_back>>

\* hex32_to_digest(result): the parts, of which ntohl makes the value
Hex32ToDigest ==
    /\ dg_pc = "hex"
    /\ dg_back' = hex32_to_digest_parts(dg_hex)
    /\ dg_pc' = "back"
    /\ UNCHANGED <<dg_value, dg_hex>>

\* C26: a 32-bit value converted by digest_to_hex32 and back by
\* hex32_to_digest is the value it was: the four bytes are the same, and so
\* is the number they stand for.
C26_Hex32RoundTrip ==
    dg_pc = "back" =>
        /\ dg_back = dg_value
        /\ dg_value[1] < 128 =>
            /\ digest_to_hex32(ntohl(dg_value)) = dg_hex
            /\ hex32_to_digest(dg_hex) = ntohl(dg_value)

\* C26 witness: 0x4d3b6d47 became "4d3b6d47" and came back
C26_Witness ==
    /\ dg_pc = "back"
    /\ dg_value = <<77, 59, 109, 71>>
    /\ dg_hex = <<52, 100, 51, 98, 54, 100, 52, 55>>
    /\ dg_back = <<77, 59, 109, 71>>
    /\ hex32_to_digest(dg_hex) = 1295740231

\* ------------------------------------------------------------------------
\* Frames of a client (checked under SpecFrame): one worker binds a slot of
\* the pool, reads frame headers and processes them until an error, finishes
\* the slot and puts it back
\* ------------------------------------------------------------------------
MaxType == 8
MaxPayload == 2
MaxBinds == 3

PROXY_MSG_TYPE_TCP_OPEN == 1
PROXY_MSG_TYPE_TCP_DATA == 2
PROXY_MSG_TYPE_TCP_CLOSE == 3
PROXY_MSG_TYPE_TCP_STATUS == 4
PROXY_MSG_TYPE_UDP_DATA == 5
PROXY_MSG_TYPE_UDP_CONTROL == 6

\* the values of the type byte the model sends: 0, the six named types, 7
\* and one value above 7
FrameTypes == 0..MaxType

InitFrameIdle ==
    /\ fr_pc = "idle"
    /\ fr_slot = NULL
    /\ fr_client = "none"
    /\ fr_type = 0
    /\ fr_size = 0
    /\ fr_stream = 0
    /\ fr_ret = 0
    /\ fr_binds = 0
    /\ fr_bad = {}

\* a variant that reads the payload of a frame it refuses
process_message_skip(type, size, stream) ==
    IF type \in {PROXY_MSG_TYPE_TCP_DATA, PROXY_MSG_TYPE_UDP_DATA, PROXY_MSG_TYPE_UDP_CONTROL}
    THEN IF stream >= size THEN <<0, size>> ELSE <<-EPIPE, stream>>
    ELSE IF type \in {PROXY_MSG_TYPE_TCP_OPEN, PROXY_MSG_TYPE_TCP_CLOSE}
    THEN <<0, 0>>
    ELSE <<-EINVAL, IF stream >= size THEN size ELSE stream>>

\* process_message: <<return value, payload bytes read from the client>> for
\* a header of the given type and size when the client's stream holds
\* `stream` bytes behind the header and then ends. TCP_DATA, UDP_DATA and
\* UDP_CONTROL read size bytes (-EPIPE when the stream ends before), TCP_OPEN
\* and TCP_CLOSE read none, every other type is refused unread
process_message(type, size, stream) ==
    IF type \in {PROXY_MSG_TYPE_TCP_DATA, PROXY_MSG_TYPE_UDP_DATA, PROXY_MSG_TYPE_UDP_CONTROL}
    THEN IF stream >= size THEN <<0, size>> ELSE <<-EPIPE, stream>>
    ELSE IF type \in {PROXY_MSG_TYPE_TCP_OPEN, PROXY_MSG_TYPE_TCP_CLOSE}
    THEN <<0, 0>>
    ELSE <<-EINVAL, 0>>

\* proxy_worker_func: the worker takes a slot off the idle list and binds the
\* authorized client to it
FrameBind ==
    /\ fr_pc = "idle"
    /\ fr_binds < MaxBinds
    /\ PoolAcquire
    /\ fr_slot' \in (pool_held' \ pool_held)
    /\ fr_client' = "open"
    /\ fr_pc' = "recv"
    /\ fr_binds' = fr_binds + 1
    /\ UNCHANGED <<fr_type, fr_size, fr_stream, fr_ret, fr_bad>>

\* conn_recv of one header: a header of any type and size arrives, with as
\* many bytes behind it as the client sends before the next header or its end
FrameRecvHeader ==
    /\ fr_pc = "recv"
    /\ \E type \in FrameTypes, size \in 0..MaxPayload, stream \in 0..MaxPayload :
        /\ fr_type' = type
        /\ fr_size' = size
        /\ fr_stream' = stream
    /\ fr_pc' = "proc"
    /\ UNCHANGED <<fr_slot, fr_client, fr_ret, fr_binds, fr_bad>>

\* conn_recv of a header fails: the client is gone
FrameRecvFail ==
    /\ fr_pc = "recv"
    /\ fr_ret' = -EPIPE
    /\ fr_pc' = "exit"
    /\ UNCHANGED <<fr_slot, fr_client, fr_type, fr_size, fr_stream, fr_binds, fr_bad>>

\* process_message and the test of its result: on an error conn_drop and
\* leave the loop
FrameProcess ==
    /\ fr_pc = "proc"
    /\ LET r == process_message(fr_type, fr_size, fr_stream)
       IN /\ fr_ret' = r[1]
          /\ fr_stream' = fr_stream - r[2]
          /\ fr_client' = IF r[1] < 0 THEN "dropped" ELSE fr_client
          /\ fr_pc' = IF r[1] < 0 THEN "exit" ELSE "recv"
          /\ fr_bad' = IF r[1] = -EINVAL THEN fr_bad \cup {fr_slot} ELSE fr_bad
    /\ UNCHANGED <<fr_slot, fr_type, fr_size, fr_binds>>

\* the slot is finished: the client connection is freed and cleared
FrameFinish ==
    /\ fr_pc = "exit"
    /\ fr_client' = "none"
    /\ fr_pc' = "finished"
    /\ UNCHANGED <<fr_slot, fr_type, fr_size, fr_stream, fr_ret, fr_binds, fr_bad>>

\* proxy_worker_func puts the slot back in the pool
FrameRelease ==
    /\ fr_pc = "finished"
    /\ PoolRelease
    /\ fr_slot' = NULL
    /\ fr_pc' = "idle"
    /\ UNCHANGED <<fr_client, fr_type, fr_size, fr_stream, fr_ret, fr_binds, fr_bad>>

InvalidType(type) ==
    type \notin {PROXY_MSG_TYPE_TCP_OPEN, PROXY_MSG_TYPE_TCP_DATA, PROXY_MSG_TYPE_TCP_CLOSE,
                 PROXY_MSG_TYPE_UDP_DATA, PROXY_MSG_TYPE_UDP_CONTROL}

\* C38: a header whose type is none of TCP_OPEN, TCP_DATA, TCP_CLOSE,
\* UDP_DATA, UDP_CONTROL makes message processing fail with -EINVAL and
\* reads none of the bytes behind it; the client is dropped; the slot is then
\* finished (client cleared) and put at the tail of the idle list, from
\* where it can be taken again.
C38_InvalidTypeRefusedSlotReturned ==
    /\ [][(fr_pc = "proc" /\ InvalidType(fr_type))
            => /\ fr_ret' = -EINVAL
               /\ fr_stream' = fr_stream
               /\ fr_client' = "dropped"
               /\ fr_pc' = "exit"]_vars
    /\ [][(fr_pc = "proc" /\ fr_ret' = -EINVAL) => InvalidType(fr_type)]_vars
    /\ [][(fr_pc = "finished" /\ fr_pc' = "idle")
            => /\ fr_client = "none"
               /\ PoolList' = Append(PoolList, fr_slot)]_vars
    /\ (fr_pc = "exit" /\ fr_ret = -EINVAL)
            ~> (fr_pc = "idle" /\ fr_bad \subseteq SeqSet(PoolList))
    /\ [](fr_pc = "idle" => fr_bad \subseteq SeqSet(PoolList))

\* C38 witness: slot 2 was left by a client that sent a TCP_STATUS header
\* with payload behind it, went to the tail of the list, and is bound again
C38_Witness ==
    /\ fr_bad = {2}
    /\ fr_binds = 2
    /\ fr_slot = 2
    /\ fr_client = "open"
    /\ fr_pc = "recv"
    /\ fr_type = PROXY_MSG_TYPE_TCP_STATUS
    /\ fr_ret = -EINVAL
    /\ fr_stream = MaxPayload
    /\ PoolList = <<1, 3, 4>>

\* ------------------------------------------------------------------------
\* The callsign and the response in proxy_worker_authorize (checked under
\* SpecHandshake): the two reads, the scan for the newline, the copy of the
\* callsign and the comparison
\* ------------------------------------------------------------------------
\* hs_msg: the bytes the client sends after the nonce (offset o is hs_msg[o + 1])
\* hs_buff: buff, as far as it has been written; hs_idx: idx after the scan
\* hs_callsign: the string in pw->callsign; hs_read: bytes read from the client
\* hs_cmp: the bytes of buff that were compared with the response
\* hs_ret: what proxy_worker_authorize returned

PROXY_PASS_RES_LEN == 16
FirstReadLen == 16
ScanLimit == 11
MsgLen == 28
NewlineChar == 10

\* the response the proxy expects (get_password_response), 16 bytes that
\* occur nowhere else in a message
ExpectedResponse == [j \in 1..PROXY_PASS_RES_LEN |-> 200 + j - 1]

\* a message with newlines at offsets nl1 and nl2, a zero byte at offset z if
\* that is before nl1, the expected response from offset nl1 + 1 + sh on, and
\* letters elsewhere (an offset of MsgLen stands for none)
Message(nl1, nl2, z, sh) ==
    [i \in 1..MsgLen |->
        LET o == i - 1
        IN IF o = nl1 \/ o = nl2 THEN NewlineChar
           ELSE IF o = z /\ z < nl1 THEN 0
           ELSE IF o >= nl1 + 1 + sh /\ o <= nl1 + PROXY_PASS_RES_LEN + sh
                THEN ExpectedResponse[o - (nl1 + sh)]
           ELSE 65 + o]

ClientMessages ==
    {Message(nl1, nl2, z, sh) : nl1 \in (0..FirstReadLen - 1) \cup {MsgLen},
                                nl2 \in (0..FirstReadLen - 1) \cup {MsgLen},
                                z \in (0..ScanLimit - 1) \cup {MsgLen},
                                sh \in {-1, 0, 1}}

InitHandshakeIdle ==
    /\ hs_pc = "idle"
    /\ hs_msg = <<>>
    /\ hs_buff = <<>>
    /\ hs_idx = 0
    /\ hs_callsign = <<>>
    /\ hs_read = 0
    /\ hs_cmp = <<>>
    /\ hs_ret = 0

\* after the nonce was sent
InitHandshake ==
    /\ hs_pc = "recv16"
    /\ hs_msg \in ClientMessages
    /\ hs_buff = <<>>
    /\ hs_idx = 0
    /\ hs_callsign = <<>>
    /\ hs_read = 0
    /\ hs_cmp = <<>>
    /\ hs_ret = 0

\* idx = 0; while (idx < 11 && buff[idx] != '\n') idx++;
RECURSIVE ScanNewline(_, _)
ScanNewline(buff, idx) ==
    IF idx < ScanLimit /\ buff[idx + 1] # NewlineChar THEN ScanNewline(buff, idx + 1) ELSE idx

\* strcpy(dst, src): the bytes of src before its first zero byte
RECURSIVE strcpy(_, _)
strcpy(src, i) ==
    IF i > Len(src) \/ src[i] = 0 THEN <<>> ELSE <<src[i]>> \o strcpy(src, i + 1)

\* conn_recv(pw->conn_client, buff, 16)
HandshakeRecv16 ==
    /\ hs_pc = "recv16"
    /\ hs_buff' = SubSeq(hs_msg, 1, FirstReadLen)
    /\ hs_read' = FirstReadLen
    /\ hs_pc' = "scan"
    /\ UNCHANGED <<hs_msg, hs_idx, hs_callsign, hs_cmp, hs_ret>>

\* either conn_recv fails: the client is gone
HandshakeRecvFail ==
    /\ hs_pc \in {"recv16", "recvrest"}
    /\ hs_ret' = -EPIPE
    /\ hs_pc' = "done"
    /\ UNCHANGED <<hs_msg, hs_buff, hs_idx, hs_callsign, hs_read, hs_cmp>>

\* the scan, the test of idx, buff[idx] = '\0' and the strcpy
HandshakeScan ==
    /\ hs_pc = "scan"
    /\ LET idx == ScanNewline(hs_buff, 0)
       IN /\ hs_idx' = idx
          /\ IF idx >= ScanLimit
             THEN /\ hs_ret' = -EINVAL
                  /\ hs_pc' = "done"
                  /\ UNCHANGED <<hs_buff, hs_callsign>>
             ELSE /\ hs_buff' = [hs_buff EXCEPT ![idx + 1] = 0]
                  /\ hs_callsign' = strcpy(hs_buff', 1)
                  /\ hs_pc' = "recvrest"
                  /\ UNCHANGED hs_ret
    /\ UNCHANGED <<hs_msg, hs_read, hs_cmp>>

\* conn_recv(pw->conn_client, &buff[16], idx + 1)
HandshakeRecvRest ==
    /\ hs_pc = "recvrest"
    /\ hs_buff' = hs_buff \o SubSeq(hs_msg, hs_read + 1, hs_read + hs_idx + 1)
    /\ hs_read' = hs_read + hs_idx + 1
    /\ hs_pc' = "compare"
    /\ UNCHANGED <<hs_msg, hs_idx, hs_callsign, hs_cmp, hs_ret>>

\* the comparison with the response, then the callsign filter; the result of
\* sending the refusal replaces -EACCES when the send fails
HandshakeCompare ==
    /\ hs_pc = "compare"
    /\ hs_cmp' = SubSeq(hs_buff, hs_idx + 2, hs_idx + 1 + PROXY_PASS_RES_LEN)
    /\ \E allowed \in {0, 1}, sent \in {0, -EPIPE} :
        hs_ret' = IF hs_cmp' = ExpectedResponse /\ allowed = 1 THEN 0
                  ELSE IF sent < 0 THEN sent ELSE -EACCES
    /\ hs_pc' = "done"
    /\ UNCHANGED <<hs_msg, hs_buff, hs_idx, hs_callsign, hs_read>>

\* offsets 0..10 of the message hold no newline
NoNewlineInFirst11 == \A o \in 0..ScanLimit - 1 : hs_msg[o + 1] # NewlineChar

\* the offset of the first newline of the message
FirstNewline == CHOOSE o \in 0..MsgLen : o = MsgLen \/ (hs_msg[o + 1] = NewlineChar
                    /\ \A q \in 0..o - 1 : hs_msg[q + 1] # NewlineChar)

\* the framing of the handshake: -EINVAL if and only if offsets 0..10 hold no
\* newline (and then after 16 bytes); otherwise idx + 1 further bytes are
\* read, idx + 17 in all, and the bytes compared are those at offsets
\* idx + 1 .. idx + 16
HandshakeFraming ==
    /\ (hs_pc = "done" /\ hs_read >= FirstReadLen)
            => (hs_ret = -EINVAL <=> NoNewlineInFirst11)
    /\ hs_ret = -EINVAL => hs_read = FirstReadLen
    /\ (hs_pc \in {"recvrest", "compare", "done"} /\ ~NoNewlineInFirst11 /\ hs_read >= FirstReadLen)
            => hs_idx = FirstNewline
    /\ hs_pc = "compare" => hs_read = hs_idx + 17
    /\ hs_cmp # <<>> =>
            /\ hs_read = hs_idx + 17
            /\ hs_cmp = SubSeq(hs_msg, hs_idx + 2, hs_idx + 17)
            /\ hs_ret = 0 => hs_cmp = ExpectedResponse

\* the callsign recorded is the bytes before the first newline, cut at the
\* first zero byte among them
CallsignIsCString ==
    hs_pc \in {"recvrest", "compare"} =>
        /\ \A k \in 1..Len(hs_callsign) : hs_callsign[k] = hs_msg[k] /\ hs_callsign[k] # 0
        /\ Len(hs_callsign) <= hs_idx
        /\ Len(hs_callsign) < hs_idx => hs_msg[Len(hs_callsign) + 1] = 0

\* C39: for every 16-byte first read, authorization fails with -EINVAL if
\* and only if none of the bytes at offsets 0..10 is a newline; otherwise,
\* with idx the offset of the first newline, the callsign recorded is the
\* bytes at offsets 0..idx-1, idx + 1 further bytes are read (idx + 17 in
\* all) and the 16 bytes at offsets idx+1..idx+16 are compared with the
\* expected response.
C39_HandshakeFramingAndCallsign ==
    /\ HandshakeFraming
    /\ hs_pc \in {"recvrest", "compare"} => hs_callsign = SubSeq(hs_msg, 1, hs_idx)

\* C40: the callsign of a client whose authorization succeeded has between
\* 1 and 10 characters.
C40_CallsignLength ==
    (hs_pc = "done" /\ hs_ret = 0) => (Len(hs_callsign) >= 1 /\ Len(hs_callsign) <= 10)

\* no callsign recorded is longer than 10 characters
CallsignAtMost10 == Len(hs_callsign) <= ScanLimit - 1

\* ------------------------------------------------------------------------
\* Specifications
\* ------------------------------------------------------------------------
\* the variables each specification leaves alone
notProxyVars == <<regSpecVars, workerSpecVars, slotSpecVars, lockSpecVars, regWorkerVars, tcpDataVars, closeSpecVars, pwSpecVars, authSpecVars, digestSpecVars, poolSpecVars, finSpecVars, regLatestVars, frameVars, handshakeVars>>
notRegVars == <<regFrame, workerSpecVars, slotSpecVars, lockSpecVars, regWorkerVars, tcpDataVars, closeSpecVars, pwSpecVars, authSpecVars, digestSpecVars, poolSpecVars, finSpecVars, regLatestVars, frameVars, handshakeVars>>
notWorkerVars == <<proxyVars, regSpecVars, slotSpecVars, lockSpecVars, regWorkerVars, tcpDataVars, closeSpecVars, pwSpecVars, authSpecVars, digestSpecVars, poolSpecVars, finSpecVars, regLatestVars, frameVars, handshakeVars>>
notSlotVars == <<proxyVars, regSpecVars, workerSpecVars, lockSpecVars, regWorkerVars, tcpDataVars, closeSpecVars, pwSpecVars, authSpecVars, digestSpecVars, poolSpecVars, finSpecVars, regLatestVars, frameVars, handshakeVars>>
notLockVars == <<proxyVars, regSpecVars, workerSpecVars, slotSpecVars, regWorkerVars, tcpDataVars, closeSpecVars, pwSpecVars, authSpecVars, digestSpecVars, poolSpecVars, finSpecVars, regLatestVars, frameVars, handshakeVars>>
notTcpDataVars == <<proxyVars, regSpecVars, workerSpecVars, slotSpecVars, lockSpecVars, regWorkerVars, closeSpecVars, pwSpecVars, authSpecVars, digestSpecVars, poolSpecVars, finSpecVars, regLatestVars, frameVars, handshakeVars>>
notCloseVars == <<proxyVars, regSpecVars, workerSpecVars, slotSpecVars, lockSpecVars, regWorkerVars, tcpDataVars, pwSpecVars, authSpecVars, digestSpecVars, poolSpecVars, finSpecVars, regLatestVars, frameVars, handshakeVars>>
notPwVars == <<proxyVars, regSpecVars, workerSpecVars, slotSpecVars, lockSpecVars, regWorkerVars, tcpDataVars, closeSpecVars, authSpecVars, digestSpecVars, poolSpecVars, finSpecVars, regLatestVars, frameVars, handshakeVars>>
notAuthVars == <<proxyVars, regSpecVars, workerSpecVars, slotSpecVars, lockSpecVars, regWorkerVars, tcpDataVars, closeSpecVars, pwSpecVars, digestSpecVars, poolSpecVars, finSpecVars, regLatestVars, frameVars, handshakeVars>>
notDigestVars == <<proxyVars, regSpecVars, workerSpecVars, slotSpecVars, lockSpecVars, regWorkerVars, tcpDataVars, closeSpecVars, pwSpecVars, authSpecVars, poolSpecVars, finSpecVars, regLatestVars, frameVars, handshakeVars>>
notRegWorkerVars == <<proxyVars, upd_pc, upd_total, upd_used, workerSpecVars, slotSpecVars, lockSpecVars, tcpDataVars, closeSpecVars, pwSpecVars, authSpecVars, digestSpecVars, poolSpecVars, finSpecVars, regLatestVars, frameVars, handshakeVars>>

\* the admission path and the life cycle of the proxy
Init == InitProxy /\ InitRegIdle /\ InitWorkerIdle /\ InitSlotIdle /\ InitLockIdle /\ InitRegWorkerIdle /\ InitHandshakeIdle /\ InitFrameIdle /\ InitRegLatestIdle /\ InitFinishIdle /\ InitPoolIdle /\ InitDigestIdle /\ InitAuthIdle /\ InitPwIdle /\ InitCloseIdle /\ InitTcpDataIdle

Next ==
    \/ ProxyProcessAccept /\ UNCHANGED notProxyVars
    \/ ProxyProcessAcceptFail /\ UNCHANGED notProxyVars
    \/ ProxyProcessPop /\ UNCHANGED notProxyVars
    \/ ProxyProcessDiscard /\ UNCHANGED notProxyVars
    \/ ProxyWorkerAccept /\ UNCHANGED notProxyVars
    \/ SigShutdown /\ UNCHANGED notProxyVars
    \/ CloseBegin /\ UNCHANGED notProxyVars
    \/ CloseShutdown /\ UNCHANGED notProxyVars
    \/ CloseDrop /\ UNCHANGED notProxyVars
    \/ CloseResetWorkers /\ UNCHANGED notProxyVars
    \/ CloseJoinWorker /\ UNCHANGED notProxyVars
    \/ CloseWaitWorker /\ UNCHANGED notProxyVars
    \/ CloseFree /\ UNCHANGED notProxyVars
    \/ \E w \in Workers : WorkerFunc(w) /\ UNCHANGED notProxyVars
    \/ \E w \in Workers : WorkerWakeUp(w) /\ UNCHANGED notProxyVars
    \/ \E w \in Workers : FuncStart(w) /\ UNCHANGED notProxyVars
    \/ \E w \in Workers : AuthSend(w) /\ UNCHANGED notProxyVars
    \/ \E w \in Workers : AuthRecv(w) /\ UNCHANGED notProxyVars
    \/ \E w \in Workers : AuthRecvInvalid(w) /\ UNCHANGED notProxyVars
    \/ \E w \in Workers : AuthRecvFail(w) /\ UNCHANGED notProxyVars
    \/ \E w \in Workers : FailFree(w) /\ UNCHANGED notProxyVars
    \/ \E w \in Workers : FailPush(w) /\ UNCHANGED notProxyVars
    \/ \E w \in Workers : AuthUpdate(w) /\ UNCHANGED notProxyVars
    \/ \E w \in Workers : AcquireSlot(w) /\ UNCHANGED notProxyVars
    \/ \E w \in Workers : ServeDropped(w) /\ UNCHANGED notProxyVars
    \/ \E w \in Workers : ServeClientGone(w) /\ UNCHANGED notProxyVars
    \/ \E w \in Workers : proxy_conn_finish(w) /\ UNCHANGED notProxyVars
    \/ \E w \in Workers : ReleaseSlot(w) /\ UNCHANGED notProxyVars
    \/ \E w \in Workers : ExitFree(w) /\ UNCHANGED notProxyVars
    \/ \E w \in Workers : ExitPush(w) /\ UNCHANGED notProxyVars
    \/ \E w \in Workers : ExitUpdate(w) /\ UNCHANGED notProxyVars

Spec == Init /\ [][Next]_vars

\* every thread of the program keeps running; clients owe nothing
FairSpec == Spec /\ WF_vars(ProgramStep /\ UNCHANGED notProxyVars)

\* the steps of a client inside the authorization exchange: it sends its
\* callsign and response, or hangs up, or the connection timeout ends the wait
ClientAuthStep == \E w \in Workers : AuthRecv(w) \/ AuthRecvInvalid(w) \/ AuthRecvFail(w)

\* the proxy between proxy_start and proxy_shutdown: proxy_process and the workers
NextHandOff ==
    \/ ProxyProcessAccept /\ UNCHANGED notProxyVars
    \/ ProxyProcessPop /\ UNCHANGED notProxyVars
    \/ ProxyProcessDiscard /\ UNCHANGED notProxyVars
    \/ ProxyWorkerAccept /\ UNCHANGED notProxyVars
    \/ \E w \in Workers : WorkerFunc(w) /\ UNCHANGED notProxyVars
    \/ \E w \in Workers : WorkerWakeUp(w) /\ UNCHANGED notProxyVars
    \/ \E w \in Workers : FuncStart(w) /\ UNCHANGED notProxyVars
    \/ \E w \in Workers : AuthSend(w) /\ UNCHANGED notProxyVars
    \/ \E w \in Workers : AuthRecv(w) /\ UNCHANGED notProxyVars
    \/ \E w \in Workers : AuthRecvInvalid(w) /\ UNCHANGED notProxyVars
    \/ \E w \in Workers : AuthRecvFail(w) /\ UNCHANGED notProxyVars
    \/ \E w \in Workers : FailFree(w) /\ UNCHANGED notProxyVars
    \/ \E w \in Workers : FailPush(w) /\ UNCHANGED notProxyVars
    \/ \E w \in Workers : AuthUpdate(w) /\ UNCHANGED notProxyVars
    \/ \E w \in Workers : AcquireSlot(w) /\ UNCHANGED notProxyVars
    \/ \E w \in Workers : ServeClientGone(w) /\ UNCHANGED notProxyVars
    \/ \E w \in Workers : proxy_conn_finish(w) /\ UNCHANGED notProxyVars
    \/ \E w \in Workers : ReleaseSlot(w) /\ UNCHANGED notProxyVars
    \/ \E w \in Workers : ExitFree(w) /\ UNCHANGED notProxyVars
    \/ \E w \in Workers : ExitPush(w) /\ UNCHANGED notProxyVars
    \/ \E w \in Workers : ExitUpdate(w) /\ UNCHANGED notProxyVars

\* (the listener stays open and no connection is dropped from outside: the
\* failed accept and the dropped client belong to proxy_shutdown)

\* every thread of the program keeps running, and no client stays silent
\* for ever inside the authorization exchange
SpecHandOff ==
    /\ Init
    /\ [][NextHandOff]_vars
    /\ WF_vars(ProgramStep /\ UNCHANGED notProxyVars)
    /\ WF_vars(ClientAuthStep /\ UNCHANGED notProxyVars)

\* the registration updates
InitReg == InitProxy /\ InitRegIdle /\ InitWorkerIdle /\ InitSlotIdle /\ InitLockIdle /\ InitRegWorkerIdle /\ InitHandshakeIdle /\ InitFrameIdle /\ InitRegLatestIdle /\ InitFinishIdle /\ InitPoolIdle /\ InitDigestIdle /\ InitAuthIdle /\ InitPwIdle /\ InitCloseIdle /\ InitTcpDataIdle

NextReg ==
    \/ RegPop /\ UNCHANGED notRegVars
    \/ RegServiceStop /\ UNCHANGED notRegVars
    \/ \E w \in Workers : RegPush(w) /\ UNCHANGED notRegVars
    \/ \E w \in Workers : RegUpdateCall(w) /\ UNCHANGED notRegVars
    \/ \E t \in Threads : RegUpdateCount(t) /\ UNCHANGED notRegVars
    \/ \E t \in Threads : RegUpdateRegister(t) /\ UNCHANGED notRegVars
    \/ \E t \in ShutdownThreads : RegUpdateRead(t) /\ UNCHANGED notRegVars
    \/ \E t \in ShutdownThreads : RegShutdownSet(t) /\ UNCHANGED notRegVars
    \/ \E t \in ShutdownThreads : RegShutdownListen(t) /\ UNCHANGED notRegVars

SpecReg == InitReg /\ [][NextReg]_vars

\* the worker primitive; its thread is scheduled, callers and timers owe nothing
InitWorkerSpec == InitProxy /\ InitRegIdle /\ InitWorker /\ InitSlotIdle /\ InitLockIdle /\ InitRegWorkerIdle /\ InitHandshakeIdle /\ InitFrameIdle /\ InitRegLatestIdle /\ InitFinishIdle /\ InitPoolIdle /\ InitDigestIdle /\ InitAuthIdle /\ InitPwIdle /\ InitCloseIdle /\ InitTcpDataIdle

NextWorker ==
    \/ worker_start /\ UNCHANGED notWorkerVars
    \/ worker_wake /\ UNCHANGED notWorkerVars
    \/ worker_join /\ UNCHANGED notWorkerVars
    \/ thread_join /\ UNCHANGED notWorkerVars
    \/ worker_func /\ UNCHANGED notWorkerVars
    \/ FuncReturn /\ UNCHANGED notWorkerVars
    \/ CondvarWaitReturn /\ UNCHANGED notWorkerVars
    \/ CondvarWaitTimeout /\ UNCHANGED notWorkerVars
    \/ worker_wait_idle /\ UNCHANGED notWorkerVars
    \/ worker_join_again /\ UNCHANGED notWorkerVars
    \/ thread_join_again /\ UNCHANGED notWorkerVars
    \/ WaitIdleWoken /\ UNCHANGED notWorkerVars

SpecWorker ==
    /\ InitWorkerSpec
    /\ [][NextWorker]_vars
    /\ WF_vars(WorkerThreadStep /\ UNCHANGED notWorkerVars)

\* one slot in service
InitSlotSpec == InitProxy /\ InitRegIdle /\ InitWorkerIdle /\ InitSlot /\ InitLockIdle /\ InitRegWorkerIdle /\ InitHandshakeIdle /\ InitFrameIdle /\ InitRegLatestIdle /\ InitFinishIdle /\ InitPoolIdle /\ InitDigestIdle /\ InitAuthIdle /\ InitPwIdle /\ InitCloseIdle /\ InitTcpDataIdle

NextSlot ==
    \/ ProcTcpOpen /\ UNCHANGED notSlotVars
    \/ ProcThreadStart /\ UNCHANGED notSlotVars
    \/ StatusLock /\ UNCHANGED notSlotVars
    \/ StatusSend /\ UNCHANGED notSlotVars
    \/ ProcTcpClose /\ UNCHANGED notSlotVars
    \/ ProcTcpData /\ UNCHANGED notSlotVars
    \/ ProcRecvFail /\ UNCHANGED notSlotVars
    \/ FwdTcpEnd /\ UNCHANGED notSlotVars
    \/ \E t \in Forwarders : FwdRecv(t) /\ UNCHANGED notSlotVars
    \/ \E t \in Forwarders : FwdLock(t) /\ UNCHANGED notSlotVars
    \/ \E t \in Forwarders : FwdSend(t) /\ UNCHANGED notSlotVars
    \/ \E t \in {"process", "tcp"} : SendTcpCloseLock(t) /\ UNCHANGED notSlotVars
    \/ \E t \in {"process", "tcp"} : send_tcp_close(t) /\ UNCHANGED notSlotVars

SpecSlot == InitSlotSpec /\ [][NextSlot]_vars

\* the lock discipline
InitLockSpec == InitProxy /\ InitRegIdle /\ InitWorkerIdle /\ InitSlotIdle /\ InitLockIdle /\ InitRegWorkerIdle /\ InitHandshakeIdle /\ InitFrameIdle /\ InitRegLatestIdle /\ InitFinishIdle /\ InitPoolIdle /\ InitDigestIdle /\ InitAuthIdle /\ InitPwIdle /\ InitCloseIdle /\ InitTcpDataIdle

NextLock ==
    \/ \E t \in LockThreads : LockCall(t) /\ UNCHANGED notLockVars
    \/ \E t \in LockThreads : SignalDelivered(t) /\ UNCHANGED notLockVars
    \/ \E t \in LockThreads : LockAcquire(t) /\ UNCHANGED notLockVars
    \/ \E t \in LockThreads : LockRelease(t) /\ UNCHANGED notLockVars
    \/ \E t \in LockThreads : LockIo(t) /\ UNCHANGED notLockVars

SpecLock == InitLockSpec /\ [][NextLock]_vars

\* the registration worker
InitRegWorkerSpec ==
    InitProxy /\ InitRegService /\ InitWorkerIdle /\ InitSlotIdle /\ InitLockIdle
        /\ InitRegWorkerIdle /\ InitHandshakeIdle /\ InitFrameIdle /\ InitRegLatestIdle /\ InitFinishIdle /\ InitPoolIdle /\ InitDigestIdle /\ InitAuthIdle /\ InitPwIdle /\ InitCloseIdle /\ InitTcpDataIdle

NextRegWorker ==
    \/ registration_service_start /\ UNCHANGED notRegWorkerVars
    \/ registration_service_stop /\ UNCHANGED notRegWorkerVars
    \/ RegStopJoin /\ UNCHANGED notRegWorkerVars
    \/ RegWorkerJoined /\ UNCHANGED notRegWorkerVars
    \/ RegWorkerLoop /\ UNCHANGED notRegWorkerVars
    \/ RegWorkerWakeUp /\ UNCHANGED notRegWorkerVars
    \/ RegServiceUpdate /\ UNCHANGED notRegWorkerVars
    \/ RegFuncSnapshot /\ UNCHANGED notRegWorkerVars
    \/ RegFuncReport /\ UNCHANGED notRegWorkerVars

SpecRegWorker ==
    /\ InitRegWorkerSpec
    /\ [][NextRegWorker]_vars
    /\ WF_vars(RegWorkerStep /\ UNCHANGED notRegWorkerVars)
    /\ WF_vars(RegStopStep /\ UNCHANGED notRegWorkerVars)

\* one TCP_DATA frame
InitTcpDataSpec ==
    InitProxy /\ InitRegIdle /\ InitWorkerIdle /\ InitSlotIdle /\ InitLockIdle
        /\ InitRegWorkerIdle /\ InitHandshakeIdle /\ InitFrameIdle /\ InitRegLatestIdle /\ InitFinishIdle /\ InitPoolIdle /\ InitDigestIdle /\ InitAuthIdle /\ InitPwIdle /\ InitCloseIdle /\ InitTcpData

NextTcpData ==
    \/ TcpDataLoop /\ UNCHANGED notTcpDataVars
    \/ TcpDataRecvfrom /\ UNCHANGED notTcpDataVars
    \/ TcpDataSend /\ UNCHANGED notTcpDataVars

SpecTcpData == InitTcpDataSpec /\ [][NextTcpData]_vars

\* a connection being closed
InitCloseSpec ==
    InitProxy /\ InitRegIdle /\ InitWorkerIdle /\ InitSlotIdle /\ InitLockIdle
        /\ InitRegWorkerIdle /\ InitHandshakeIdle /\ InitFrameIdle /\ InitRegLatestIdle /\ InitFinishIdle /\ InitPoolIdle /\ InitDigestIdle /\ InitAuthIdle /\ InitPwIdle /\ InitTcpDataIdle /\ InitClose

NextClose ==
    \/ PeerSends /\ UNCHANGED notCloseVars
    \/ \E r \in Receivers : RecvCall(r) /\ UNCHANGED notCloseVars
    \/ \E r \in Receivers : RecvFrom(r) /\ UNCHANGED notCloseVars
    \/ \E r \in Receivers : RecvUnlock(r) /\ UNCHANGED notCloseVars
    \/ ConnCloseCall /\ UNCHANGED notCloseVars
    \/ ConnShutdown /\ UNCHANGED notCloseVars
    \/ ConnShutdownUnlock /\ UNCHANGED notCloseVars
    \/ ConnCloseLock /\ UNCHANGED notCloseVars
    \/ ConnCloseFd /\ UNCHANGED notCloseVars

SpecClose ==
    /\ InitCloseSpec
    /\ [][NextClose]_vars
    /\ WF_vars(CloseThreadStep /\ UNCHANGED notCloseVars)

\* one password check
InitPwSpec ==
    InitProxy /\ InitRegIdle /\ InitWorkerIdle /\ InitSlotIdle /\ InitLockIdle
        /\ InitRegWorkerIdle /\ InitHandshakeIdle /\ InitFrameIdle /\ InitRegLatestIdle /\ InitFinishIdle /\ InitPoolIdle /\ InitDigestIdle /\ InitAuthIdle /\ InitTcpDataIdle /\ InitCloseIdle /\ InitPw

NextPw ==
    \/ PwRespond /\ UNCHANGED notPwVars
    \/ PwVerify /\ UNCHANGED notPwVars

SpecPw == InitPwSpec /\ [][NextPw]_vars

\* one call of the callsign filter
InitAuthSpec ==
    InitProxy /\ InitRegIdle /\ InitWorkerIdle /\ InitSlotIdle /\ InitLockIdle
        /\ InitRegWorkerIdle /\ InitHandshakeIdle /\ InitFrameIdle /\ InitRegLatestIdle /\ InitFinishIdle /\ InitPoolIdle /\ InitDigestIdle /\ InitTcpDataIdle /\ InitCloseIdle /\ InitPwIdle /\ InitAuth

NextAuth ==
    \/ AuthorizeCallsign /\ UNCHANGED notAuthVars

SpecAuth == InitAuthSpec /\ [][NextAuth]_vars

\* one conversion to hex and back
InitDigestSpec ==
    InitProxy /\ InitRegIdle /\ InitWorkerIdle /\ InitSlotIdle /\ InitLockIdle
        /\ InitRegWorkerIdle /\ InitHandshakeIdle /\ InitFrameIdle /\ InitRegLatestIdle /\ InitFinishIdle /\ InitPoolIdle /\ InitTcpDataIdle /\ InitCloseIdle /\ InitPwIdle /\ InitAuthIdle
        /\ InitDigest

NextDigest ==
    \/ DigestToHex32 /\ UNCHANGED notDigestVars
    \/ Hex32ToDigest /\ UNCHANGED notDigestVars

SpecDigest == InitDigestSpec /\ [][NextDigest]_vars

\* the idle slot list under any order of acquisitions and releases
notPoolVars == <<proxyVars, regSpecVars, workerSpecVars, slotSpecVars, lockSpecVars, regWorkerVars, tcpDataVars, closeSpecVars, pwSpecVars, authSpecVars, digestSpecVars, finSpecVars, regLatestVars, frameVars, handshakeVars>>

InitPoolSpec ==
    InitProxy /\ InitRegIdle /\ InitWorkerIdle /\ InitSlotIdle /\ InitLockIdle
        /\ InitRegWorkerIdle /\ InitHandshakeIdle /\ InitFrameIdle /\ InitRegLatestIdle /\ InitFinishIdle /\ InitTcpDataIdle /\ InitCloseIdle /\ InitPwIdle /\ InitAuthIdle
        /\ InitDigestIdle /\ InitPool

NextPool ==
    \/ PoolAcquire /\ UNCHANGED notPoolVars
    \/ PoolRelease /\ UNCHANGED notPoolVars

SpecPool == InitPoolSpec /\ [][NextPool]_vars

\* one slot over several clients
notFinishVars == <<proxyVars, regSpecVars, workerSpecVars, slotSpecVars, lockSpecVars, regWorkerVars, tcpDataVars, closeSpecVars, pwSpecVars, authSpecVars, digestSpecVars, poolSpecVars, regLatestVars, frameVars, handshakeVars>>

InitFinishSpec ==
    InitProxy /\ InitRegIdle /\ InitWorkerIdle /\ InitSlotIdle /\ InitLockIdle
        /\ InitRegWorkerIdle /\ InitHandshakeIdle /\ InitFrameIdle /\ InitRegLatestIdle /\ InitTcpDataIdle /\ InitCloseIdle /\ InitPwIdle /\ InitAuthIdle
        /\ InitDigestIdle /\ InitPoolIdle /\ InitFinish

NextFinish ==
    \/ FinishBind /\ UNCHANGED notFinishVars
    \/ FinishTcpConnect /\ UNCHANGED notFinishVars
    \/ FinishThreadStart /\ UNCHANGED notFinishVars
    \/ FinishTcpClose /\ UNCHANGED notFinishVars
    \/ FinishServeEnd /\ UNCHANGED notFinishVars
    \/ FinishClose /\ UNCHANGED notFinishVars
    \/ FinishClear /\ UNCHANGED notFinishVars
    \/ FinishFwdTcpClose /\ UNCHANGED notFinishVars
    \/ \E t \in Forwarders : FinishJoin(t) /\ UNCHANGED notFinishVars
    \/ \E t \in Forwarders : FinishFwdRecv(t) /\ UNCHANGED notFinishVars
    \/ \E t \in Forwarders : FinishFwdSend(t) /\ UNCHANGED notFinishVars
    \/ \E t \in Forwarders : FinishFwdEnd(t) /\ UNCHANGED notFinishVars

SpecFinish == InitFinishSpec /\ [][NextFinish]_vars

\* the registration worker with its calls of registration_service_update
\* counted; the worker's thread is scheduled, its interval is not relied on
notRegLatestVars == <<proxyVars, upd_pc, upd_total, upd_used, workerSpecVars, slotSpecVars, lockSpecVars, tcpDataVars, closeSpecVars, pwSpecVars, authSpecVars, digestSpecVars, poolSpecVars, finSpecVars, frameVars, handshakeVars>>

NextRegLatest ==
    \/ registration_service_start /\ UNCHANGED notRegWorkerVars
    \/ registration_service_stop /\ UNCHANGED notRegWorkerVars
    \/ RegStopJoin /\ UNCHANGED notRegWorkerVars
    \/ RegWorkerJoined /\ UNCHANGED notRegWorkerVars
    \/ RegWorkerLoop /\ UNCHANGED notRegWorkerVars
    \/ RegWorkerWoken /\ UNCHANGED notRegWorkerVars
    \/ RegWorkerTimeout /\ UNCHANGED notRegWorkerVars
    \/ RegFuncSnapshot /\ UNCHANGED notRegWorkerVars
    \/ RegUpdateNoted /\ UNCHANGED notRegLatestVars
    \/ RegReportNoted /\ UNCHANGED notRegLatestVars

SpecRegLatest ==
    /\ InitRegWorkerSpec
    /\ [][NextRegLatest]_vars
    /\ WF_vars(RegWorkerRuns /\ UNCHANGED notRegWorkerVars)
    /\ WF_vars(RegReportNoted /\ UNCHANGED notRegLatestVars)
    /\ WF_vars(RegStopStep /\ UNCHANGED notRegWorkerVars)

\* one worker serving the frames of its clients over the slot pool
notFrameVars == <<proxyVars, regSpecVars, workerSpecVars, slotSpecVars, lockSpecVars, regWorkerVars, tcpDataVars, closeSpecVars, pwSpecVars, authSpecVars, digestSpecVars, finSpecVars, regLatestVars, handshakeVars>>

InitFrameSpec ==
    InitProxy /\ InitRegIdle /\ InitWorkerIdle /\ InitSlotIdle /\ InitLockIdle
        /\ InitRegWorkerIdle /\ InitHandshakeIdle /\ InitFrameIdle /\ InitRegLatestIdle /\ InitFinishIdle /\ InitTcpDataIdle /\ InitCloseIdle /\ InitPwIdle /\ InitAuthIdle
        /\ InitDigestIdle /\ InitPool

NextFrame ==
    \/ FrameBind /\ UNCHANGED notFrameVars
    \/ FrameRecvHeader /\ UNCHANGED notFrameVars /\ UNCHANGED poolSpecVars
    \/ FrameRecvFail /\ UNCHANGED notFrameVars /\ UNCHANGED poolSpecVars
    \/ FrameProcess /\ UNCHANGED notFrameVars /\ UNCHANGED poolSpecVars
    \/ FrameFinish /\ UNCHANGED notFrameVars /\ UNCHANGED poolSpecVars
    \/ FrameRelease /\ UNCHANGED notFrameVars

SpecFrame ==
    /\ InitFrameSpec
    /\ [][NextFrame]_vars
    /\ WF_vars(FrameFinish /\ UNCHANGED notFrameVars /\ UNCHANGED poolSpecVars)
    /\ WF_vars(FrameRelease /\ UNCHANGED notFrameVars)

\* proxy_worker_authorize from its first conn_recv on, for every message
notHandshakeVars == <<proxyVars, regSpecVars, workerSpecVars, slotSpecVars, lockSpecVars, regWorkerVars, tcpDataVars, closeSpecVars, pwSpecVars, authSpecVars, digestSpecVars, finSpecVars, regLatestVars, poolSpecVars, frameVars>>

InitHandshakeSpec ==
    InitProxy /\ InitRegIdle /\ InitWorkerIdle /\ InitSlotIdle /\ InitLockIdle
        /\ InitRegWorkerIdle /\ InitFrameIdle /\ InitRegLatestIdle /\ InitFinishIdle /\ InitTcpDataIdle /\ InitCloseIdle /\ InitPwIdle /\ InitAuthIdle
        /\ InitDigestIdle /\ InitPoolIdle /\ InitHandshake

NextHandshake ==
    \/ HandshakeRecv16 /\ UNCHANGED notHandshakeVars
    \/ HandshakeRecvFail /\ UNCHANGED notHandshakeVars
    \/ HandshakeScan /\ UNCHANGED notHandshakeVars
    \/ HandshakeRecvRest /\ UNCHANGED notHandshakeVars
    \/ HandshakeCompare /\ UNCHANGED notHandshakeVars

SpecHandshake == InitHandshakeSpec /\ [][NextHandshake]_vars

====
